---- MODULE Spec2Model ----
(***************************************************************************)
(* A model of the speech-synthesis orchestration pipeline of               *)
(* src/api/Synthesis.ts: synthesizeSegments, synthesizeSegment and         *)
(* requestVoiceList.                                                       *)
(*                                                                         *)
(* Representation.                                                         *)
(*  - A text is a sequence of one-character strings over Chars.            *)
(*  - An audio sample is its level in decibels; a RawAudio is a record     *)
(*    [audioChannels, sampleRate] as in the source.                        *)
(*  - A time is an integer number of 1/TimeDen seconds: the durations of   *)
(*    the source (length / sampleRate) are exact, and the product of a     *)
(*    time with a factor is rounded to the nearest unit.                   *)
(*  - A factor (speed, pitch, time stretch) is a pair <<num, den>>.        *)
(***************************************************************************)
EXTENDS Integers, Sequences, FiniteSets, TLC

\* JavaScript's undefined, for a value that is otherwise a string.
None == "undefined"

\* An optional value of any other kind is <<>> when undefined and <<v>> when v.
Undefined == <<>>
Some(v) == <<v>>

(***************************************************************************)
(* Bounds of the model and constants of the program.                       *)
(***************************************************************************)
\* The largest number of input segments of one call.
MaxSegments == 2

\* The sample rate of the audio the modelled backends return.
BackendSampleRate == 2

\* Time units per second: a sample of backend audio lasts two time units.
TimeDen == 2 * BackendSampleRate

\* getEmptyRawAudio(1, 24000)
EmptyAudioSampleRate == 24000

\* let peakDecibelsSoFar = -100 ; also the level of a digitally silent sample
MinPeakDecibels == -100

\* the amplitude threshold handed to trimAudioStart and trimAudioEnd
SilenceThresholdDb == -40

\* defaultSynthesisOptions.postProcessing
TargetPeakDb == -3
MaxIncreaseDb == 30

\* defaultSynthesisOptions.segmentEndPause = 1.0 and sentenceEndPause = 0.75,
\* in time units
DefaultSegmentEndPause == TimeDen
DefaultSentenceEndPause == (3 * TimeDen) \div 4

\* The level of a voiced sample as the modelled backends produce it.
VoicedSampleDb == TargetPeakDb - 6

Max(a, b) == IF a >= b THEN a ELSE b
Min(a, b) == IF a <= b THEN a ELSE b

(***************************************************************************)
(* Texts.                                                                  *)
(***************************************************************************)
Chars == {"a", "!", " "}

IsLetter(c) == c = "a"
IsWhitespace(c) == c = " "

RECURSIVE TrimStart(_)
TrimStart(text) ==
    IF text # <<>> /\ IsWhitespace(Head(text)) THEN TrimStart(Tail(text)) ELSE text

RECURSIVE TrimEnd(_)
TrimEnd(text) ==
    IF text # <<>> /\ IsWhitespace(text[Len(text)])
    THEN TrimEnd(SubSeq(text, 1, Len(text) - 1))
    ELSE text

\* String.prototype.trim
Trim(text) == TrimEnd(TrimStart(text))

\* isWord: the text holds a letter (a word-class token); punctuation-only,
\* whitespace-only and empty texts are not words.
IsWord(text) == \E i \in DOMAIN text : IsLetter(text[i])

\* splitToSentences: a sentence ends after each terminator "!"; the pieces
\* concatenate to the text.
RECURSIVE SplitFrom(_, _)
SplitFrom(text, current) ==
    IF text = <<>>
    THEN IF current = <<>> THEN <<>> ELSE <<current>>
    ELSE IF Head(text) = "!"
         THEN <<Append(current, "!")>> \o SplitFrom(Tail(text), <<>>)
         ELSE SplitFrom(Tail(text), Append(current, Head(text)))

SplitToSentences(text, language) == SplitFrom(text, <<>>)

\* convertHtmlToText: the text without its markup (what stands from a "<"
\* to the next ">") and without the whitespace around it.
RECURSIVE StripTags(_, _)
StripTags(text, inTag) ==
    IF text = <<>> THEN <<>>
    ELSE IF inTag THEN StripTags(Tail(text), Head(text) # ">")
    ELSE IF Head(text) = "<" THEN StripTags(Tail(text), TRUE)
    ELSE <<Head(text)>> \o StripTags(Tail(text), FALSE)

ConvertHtmlToText(text) == Trim(StripTags(text, FALSE))

(***************************************************************************)
(* Audio.                                                                  *)
(***************************************************************************)
Silence(n) == [i \in 1..n |-> MinPeakDecibels]

GetEmptyRawAudio(channelCount, sampleRate) ==
    [audioChannels |-> [c \in 1..channelCount |-> <<>>], sampleRate |-> sampleRate]

IsSilentSample(sample, thresholdDb) == sample < thresholdDb

RECURSIVE StartingSilentSampleCount(_, _)
StartingSilentSampleCount(samples, thresholdDb) ==
    IF samples # <<>> /\ IsSilentSample(Head(samples), thresholdDb)
    THEN 1 + StartingSilentSampleCount(Tail(samples), thresholdDb)
    ELSE 0

RECURSIVE EndingSilentSampleCount(_, _)
EndingSilentSampleCount(samples, thresholdDb) ==
    IF samples # <<>> /\ IsSilentSample(samples[Len(samples)], thresholdDb)
    THEN 1 + EndingSilentSampleCount(SubSeq(samples, 1, Len(samples) - 1), thresholdDb)
    ELSE 0

\* trimAudioStart(samples, targetStartSilentSampleCount, thresholdDb): the
\* leading silence is cut and the target count of silent samples put back.
TrimAudioStart(samples, targetSilentSampleCount, thresholdDb) ==
    Silence(targetSilentSampleCount)
        \o SubSeq(samples, StartingSilentSampleCount(samples, thresholdDb) + 1, Len(samples))

\* trimAudioEnd(samples, targetEndSilentSampleCount, thresholdDb): the
\* trailing silence is cut and the target count of silent samples put back.
TrimAudioEnd(samples, targetSilentSampleCount, thresholdDb) ==
    SubSeq(samples, 1, Len(samples) - EndingSilentSampleCount(samples, thresholdDb))
        \o Silence(targetSilentSampleCount)

RECURSIVE ConcatChannel(_, _)
ConcatChannel(parts, c) ==
    IF parts = <<>> THEN <<>> ELSE Head(parts)[c] \o ConcatChannel(Tail(parts), c)

\* concatAudioSegments(parts): channel by channel, the parts in order.
ConcatAudioSegments(parts) ==
    [c \in 1..Len(Head(parts)) |-> ConcatChannel(parts, c)]

\* downmixToMono: one channel, each sample the mean of the channels' samples.
RECURSIVE SumAt(_, _)
SumAt(channels, i) ==
    IF channels = <<>> THEN 0 ELSE Head(channels)[i] + SumAt(Tail(channels), i)

DownmixToMono(audio) ==
    [audioChannels |->
        << [i \in 1..Len(audio.audioChannels[1]) |->
                SumAt(audio.audioChannels, i) \div Len(audio.audioChannels)] >>,
     sampleRate |-> audio.sampleRate]

RECURSIVE PeakOfSamples(_)
PeakOfSamples(samples) ==
    IF samples = <<>> THEN MinPeakDecibels
    ELSE Max(Head(samples), PeakOfSamples(Tail(samples)))

\* getAudioPeakDecibels(audioChannels)
RECURSIVE GetAudioPeakDecibels(_)
GetAudioPeakDecibels(channels) ==
    IF channels = <<>> THEN MinPeakDecibels
    ELSE Max(PeakOfSamples(Head(channels)), GetAudioPeakDecibels(Tail(channels)))

\* normalizeAudioLevel: the gain that brings the peak to the target, never
\* more than maxIncreaseDb; digital silence stays silent.
NormalizeAudioLevel(audio, targetPeakDb, maxIncreaseDb) ==
    LET peak == GetAudioPeakDecibels(audio.audioChannels)
        gain == Min(targetPeakDb - peak, maxIncreaseDb)
    IN  [audio EXCEPT !.audioChannels =
            [c \in DOMAIN @ |->
                [i \in DOMAIN @[c] |->
                    IF @[c][i] = MinPeakDecibels THEN MinPeakDecibels ELSE @[c][i] + gain]]]

\* sample count / sample rate, in time units
Duration(audio) == (Len(audio.audioChannels[1]) * TimeDen) \div audio.sampleRate

RECURSIVE PeakBetween(_, _, _)
PeakBetween(samples, first, last) ==
    IF first > last THEN MinPeakDecibels
    ELSE Max(samples[first], PeakBetween(samples, first + 1, last))

\* stretchTimePitch (Sonic or Rubberband): the audio with its duration divided
\* by the time stretch factor; an output sample has the peak level of the
\* input samples it stands for.
StretchTimePitch(audio, timeStretchFactor, pitchShiftFactor) ==
    LET samples == audio.audioChannels[1]
        num == timeStretchFactor[1]
        den == timeStretchFactor[2]
        newLength == (Len(samples) * den + num - 1) \div num
        firstOf(i) == (((i - 1) * num) \div den) + 1
        lastOf(i) == Min(Len(samples), Max(firstOf(i), (i * num) \div den))
    IN  [audio EXCEPT !.audioChannels =
            << [i \in 1..newLength |-> PeakBetween(samples, firstOf(i), lastOf(i))] >>]

(***************************************************************************)
(* Timelines.                                                              *)
(***************************************************************************)
Entry(type, text, startTime, endTime, timeline) ==
    [type |-> type, text |-> text, startTime |-> startTime, endTime |-> endTime,
     timeline |-> timeline]

\* addTimeOffsetToTimeline: every entry, at every nesting level, shifted.
RECURSIVE AddTimeOffsetToTimeline(_, _)
AddTimeOffsetToTimeline(timeline, timeOffset) ==
    [i \in 1..Len(timeline) |->
        [timeline[i] EXCEPT !.startTime = @ + timeOffset,
                            !.endTime = @ + timeOffset,
                            !.timeline = AddTimeOffsetToTimeline(@, timeOffset)]]

\* A time multiplied by the factor <<num, den>>.  A timestamp is a number of
\* finite precision: the product is rounded to the nearest time unit.
ScaleTime(time, factor) == (2 * time * factor[1] + factor[2]) \div (2 * factor[2])

\* multiplyTimelineByFactor: every entry, at every nesting level, scaled.
RECURSIVE MultiplyTimelineByFactor(_, _)
MultiplyTimelineByFactor(timeline, factor) ==
    [i \in 1..Len(timeline) |->
        [timeline[i] EXCEPT !.startTime = ScaleTime(@, factor),
                            !.endTime = ScaleTime(@, factor),
                            !.timeline = MultiplyTimelineByFactor(@, factor)]]

\* 1 / factor
Reciprocal(factor) == <<factor[2], factor[1]>>

One == <<1, 1>>

(***************************************************************************)
(* Language codes.  A code is [lang, region] with the letter case as       *)
(* written; a code without a region has region "".                         *)
(***************************************************************************)
LanguageCode(lang, region) == [lang |-> lang, region |-> region]

ToLowerCase(word) ==
    CASE word = "EN" -> "en"
      [] word = "US" -> "us"
      [] word = "GB" -> "gb"
      [] word = "Male" -> "male"
      [] word = "Female" -> "female"
      [] word = "A" -> "a"
      [] word = "B" -> "b"
      [] OTHER -> word

ToUpperCase(word) ==
    CASE word = "en" -> "EN"
      [] word = "us" -> "US"
      [] word = "gb" -> "GB"
      [] OTHER -> word

\* normalizeLanguageCode: language part in lower case, region part in upper case.
NormalizeLanguageCode(code) ==
    LanguageCode(ToLowerCase(code.lang), ToUpperCase(code.region))

\* getShortLanguageCode: the part before the dash, in lower case.
GetShortLanguageCode(code) == LanguageCode(ToLowerCase(code.lang), "")

\* languageCode.includes("-")
HasRegion(code) == code.region # ""

\* the empty code "", which the source treats as no language
NoLanguage == LanguageCode("", "")

\* shortLanguageCodeToLong[code], NoLanguage when the table has no entry
ShortLanguageCodeToLong(code) ==
    CASE code = LanguageCode("en", "") -> LanguageCode("en", "US")
      [] code = LanguageCode("fr", "") -> LanguageCode("fr", "FR")
      [] OTHER -> NoLanguage

\* array.includes(x)
Includes(list, x) == \E i \in DOMAIN list : list[i] = x

(***************************************************************************)
(* Voice names and name patterns: sequences of one-character strings.      *)
(***************************************************************************)
IsWordChar(c) == c \in {"a", "b", "A", "B"}

ToLocaleLowerCase(name) == [i \in DOMAIN name |-> ToLowerCase(name[i])]

\* name.split(/\b/g): the maximal runs of word characters and of other
\* characters; the empty string gives one empty part.
RECURSIVE SplitRuns(_, _)
SplitRuns(name, current) ==
    IF name = <<>> THEN <<current>>
    ELSE IF current = <<>> \/ IsWordChar(Head(name)) = IsWordChar(current[1])
         THEN SplitRuns(Tail(name), Append(current, Head(name)))
         ELSE <<current>> \o SplitRuns(Tail(name), <<Head(name)>>)

SplitAtWordBoundaries(name) == SplitRuns(name, <<>>)

\* part.startsWith(pattern)
StartsWith(part, pattern) ==
    Len(pattern) <= Len(part) /\ SubSeq(part, 1, Len(pattern)) = pattern

\* name.includes(pattern)
IncludesSubstring(name, pattern) ==
    \E i \in 0..(Len(name) - Len(pattern)) : SubSeq(name, i + 1, i + Len(pattern)) = pattern

(***************************************************************************)
(* requestVoiceList: the filters and the choice of the best voice.         *)
(***************************************************************************)
\* A mutant of FilterByLanguage: the short code is accepted next to the exact one.
FilterByLanguageAlsoShort(voiceList, languageCode) ==
    SelectSeq(voiceList, LAMBDA voice :
        \/ Includes(voice.languages, languageCode)
        \/ Includes(voice.languages, GetShortLanguageCode(languageCode)))

FilterByLanguage(voiceList, languageCode) ==
    LET filteredVoiceList ==
            SelectSeq(voiceList, LAMBDA voice : Includes(voice.languages, languageCode))
    IN  IF filteredVoiceList = <<>> /\ HasRegion(languageCode)
        THEN SelectSeq(voiceList, LAMBDA voice :
                 Includes(voice.languages, GetShortLanguageCode(languageCode)))
        ELSE filteredVoiceList

\* A mutant of FilterByGender: a voice of unknown gender is dropped.
FilterByGenderStrict(voiceList, voiceGender) ==
    SelectSeq(voiceList, LAMBDA voice : voice.gender = ToLowerCase(voiceGender))

FilterByGender(voiceList, voiceGender) ==
    SelectSeq(voiceList, LAMBDA voice :
        voice.gender = ToLowerCase(voiceGender) \/ voice.gender = "unknown")

FilterByName(voiceList, voicePattern) ==
    LET namePatternLowerCase == ToLocaleLowerCase(voicePattern)
        namePatternParts == SplitAtWordBoundaries(namePatternLowerCase)
    IN  IF Len(namePatternParts) > 1
        THEN SelectSeq(voiceList, LAMBDA voice :
                 IncludesSubstring(ToLocaleLowerCase(voice.name), namePatternLowerCase))
        ELSE SelectSeq(voiceList, LAMBDA voice :
                 LET nameParts == SplitAtWordBoundaries(ToLocaleLowerCase(voice.name))
                 IN  \E k \in DOMAIN nameParts : StartsWith(nameParts[k], namePatternLowerCase))

\* A mutant of SelectBestMatchingVoice: the first voice, whatever it declares.
SelectFirstVoice(voiceList, languageCode) ==
    IF voiceList = <<>> THEN Undefined ELSE Some(voiceList[1])

\* the first voice (Undefined for an empty list), or the first one
\* declaring the long form of the code
SelectBestMatchingVoice(voiceList, languageCode) ==
    IF voiceList = <<>> THEN Undefined
    ELSE Some(
         IF Len(voiceList) > 1 /\ ShortLanguageCodeToLong(languageCode) # NoLanguage
         THEN LET expandedLanguageCode == ShortLanguageCodeToLong(languageCode)
                  declaring == SelectSeq(voiceList, LAMBDA voice :
                                   Includes(voice.languages, expandedLanguageCode))
              IN  IF declaring # <<>> THEN declaring[1] ELSE voiceList[1]
         ELSE voiceList[1])

\* normalizeLanguageCode(options.language || "")
RequestedLanguageCode(options) == NormalizeLanguageCode(options.language)

\* The part of requestVoiceList after the voice list has been obtained.
SelectFromVoiceList(allVoices, options) ==
    LET languageCode == RequestedLanguageCode(options)
        byLanguage == IF languageCode # NoLanguage
                      THEN FilterByLanguage(allVoices, languageCode) ELSE allVoices
        byGender == IF options.voiceGender # None
                    THEN FilterByGender(byLanguage, options.voiceGender) ELSE byLanguage
        byName == IF options.voice # <<>>
                  THEN FilterByName(byGender, options.voice) ELSE byGender
    IN  [voiceList |-> byName,
         bestMatchingVoice |-> SelectBestMatchingVoice(byName, languageCode)]

(***************************************************************************)
(* Voices of the engines, as their voice-listing collaborators return them.*)
(***************************************************************************)
EnUS == LanguageCode("en", "US")
EnGB == LanguageCode("en", "GB")
FrFR == LanguageCode("fr", "FR")
En == LanguageCode("en", "")
Fr == LanguageCode("fr", "")
De == LanguageCode("de", "")

\* speakerCount 0 and packageName <<>> stand for a field left out
Voice(name, languages, gender, packageName) ==
    [name |-> name, languages |-> languages, gender |-> gender,
     speakerCount |-> 0, packageName |-> packageName]

\* VitsTTS.voiceList, FliteTTS.voiceList, SvoxPicoTTS.voiceList and the
\* lists EspeakTTS.listVoices and SapiTTS.getVoiceList return
EngineVoiceList(engine) ==
    CASE engine = "vits" ->
            << Voice(<<"a">>, <<EnUS, En>>, "female", <<>>) >>
      [] engine = "flite" ->
            << Voice(<<"b">>, <<EnGB, En>>, "male", <<>>) >>
      [] engine = "pico" ->
            << Voice(<<"a", "-", "b">>, <<FrFR, Fr>>, "female", <<"pico-fr">>) >>
      [] engine = "espeak" ->
            << Voice(<<"a">>, <<EnUS>>, "male", <<>>),
               Voice(<<"b">>, <<EnGB>>, "male", <<>>),
               Voice(<<"a", "b">>, <<De>>, "male", <<>>) >>
      [] engine = "sapi" ->
            << Voice(<<"B">>, <<EnUS, En>>, "male", <<>>) >>
      [] engine = "google-translate" ->
            << Voice(<<"c">>, <<EnUS, En>>, "unknown", <<>>) >>
      [] OTHER -> <<>>

\* the Espeak voices get the short code of each of their languages appended
RECURSIVE WithShortCodes(_, _)
WithShortCodes(languages, i) ==
    IF i > Len(languages) THEN languages
    ELSE LET shortLanguageCode == GetShortLanguageCode(languages[i])
         IN  WithShortCodes(IF Includes(languages, shortLanguageCode) THEN languages
                            ELSE Append(languages, shortLanguageCode), i + 1)

\* loadVoiceList: the list of the engine, in the form requestVoiceList caches
LoadVoiceList(engine) ==
    LET voices == EngineVoiceList(engine)
    IN  CASE engine = "espeak" ->
                [i \in DOMAIN voices |->
                    [voices[i] EXCEPT !.languages =
                        WithShortCodes([k \in DOMAIN @ |-> NormalizeLanguageCode(@[k])], 1)]]
          [] engine = "vits" ->
                [i \in DOMAIN voices |->
                    [voices[i] EXCEPT !.packageName = <<"vits-">> \o voices[i].name]]
          [] OTHER -> voices

RECURSIVE AppendNew(_, _)
AppendNew(langList, langCodes) ==
    IF langCodes = <<>> THEN langList
    ELSE AppendNew(IF Includes(langList, Head(langCodes)) THEN langList
                   ELSE Append(langList, Head(langCodes)), Tail(langCodes))

RECURSIVE GetAllLangCodesFromVoiceList(_)
GetAllLangCodesFromVoiceList(voiceList) ==
    IF voiceList = <<>> THEN <<>>
    ELSE AppendNew(GetAllLangCodesFromVoiceList(SubSeq(voiceList, 1, Len(voiceList) - 1)),
                   voiceList[Len(voiceList)].languages)

\* A mutant of SelectBestOfflineEngineForLanguage: flite is looked at before vits.
SelectBestOfflineEngineFliteFirst(language) ==
    LET normalized == NormalizeLanguageCode(language)
    IN  IF Includes(GetAllLangCodesFromVoiceList(EngineVoiceList("flite")), normalized)
        THEN "flite"
        ELSE IF Includes(GetAllLangCodesFromVoiceList(EngineVoiceList("vits")), normalized)
        THEN "vits"
        ELSE IF Includes(GetAllLangCodesFromVoiceList(EngineVoiceList("pico")), normalized)
        THEN "pico"
        ELSE "espeak"

SelectBestOfflineEngineForLanguage(language) ==
    LET normalized == NormalizeLanguageCode(language)
    IN  IF Includes(GetAllLangCodesFromVoiceList(EngineVoiceList("vits")), normalized)
        THEN "vits"
        ELSE IF Includes(GetAllLangCodesFromVoiceList(EngineVoiceList("flite")), normalized)
        THEN "flite"
        ELSE IF Includes(GetAllLangCodesFromVoiceList(EngineVoiceList("pico")), normalized)
        THEN "pico"
        ELSE "espeak"

(***************************************************************************)
(* The engines of the dispatch in synthesizeSegment.                       *)
(***************************************************************************)
\* the engines whose case does not throw on an SSML input
EngineAcceptsSSML(engine) ==
    engine \in {"espeak", "google-cloud", "microsoft-azure", "amazon-polly"}

\* the engines whose case assigns timeline from the backend's result
EngineReturnsTimeline(engine) ==
    engine \in {"vits", "sapi", "msspeech", "microsoft-azure", "microsoft-edge"}

\* the engines whose case takes a segment timeline from the backend and
\* assigns timeline from API.alignSegments
EngineAlignsSegments(engine) == engine \in {"google-translate", "streamlabs-polly"}

\* the engines whose case hands the speed to the engine's synthesize
EngineAppliesSpeed(engine) ==
    engine \in {"vits", "pico", "flite", "espeak", "sam", "google-cloud", "microsoft-azure",
                "microsoft-edge"}

\* shouldPostprocessSpeed = true
EngineDefersSpeed(engine) ==
    engine \in {"sapi", "msspeech", "coqui-server", "amazon-polly", "elevenlabs",
                "google-translate", "streamlabs-polly"}

\* shouldPostprocessPitch = true
EngineDefersPitch(engine) ==
    engine \in {"vits", "flite", "sapi", "msspeech", "coqui-server", "amazon-polly",
                "elevenlabs", "google-translate", "streamlabs-polly"}

\* the engines the model dispatches to
ModelledEngines == {"vits", "flite", "pico", "espeak", "sapi"}

(***************************************************************************)
(* The backend and the aligner.  A backend voices each letter of the text  *)
(* in one sample and leaves one silent sample for any other character; the *)
(* profile of the call gives the silence it puts before and after, and     *)
(* whether the first and last entries of a word timeline cover that        *)
(* silence ("full") or not ("tight").  Every timeline it returns is        *)
(* ordered and lies within the audio it returns.                           *)
(***************************************************************************)
BackendProfiles ==
    { [leadingSilence |-> 0, trailingSilence |-> 0, style |-> "tight"],
      [leadingSilence |-> 1, trailingSilence |-> 1, style |-> "tight"],
      [leadingSilence |-> 1, trailingSilence |-> 0, style |-> "full"],
      [leadingSilence |-> 0, trailingSilence |-> 1, style |-> "full"] }

SampleOf(c) == IF IsLetter(c) THEN VoicedSampleDb ELSE MinPeakDecibels

BackendAudio(text, profile) ==
    [audioChannels |->
        << Silence(profile.leadingSilence)
             \o [i \in 1..Len(text) |-> SampleOf(text[i])]
             \o Silence(profile.trailingSilence) >>,
     sampleRate |-> BackendSampleRate]

\* One entry per character of the text, a sample each, from the sample
\* `first` on; with `nested`, each entry holds a token entry of its own span.
WordTimelineOf(text, first, sampleCount, sampleRate, style, nested) ==
    LET unit == TimeDen \div sampleRate
    IN  [k \in 1..Len(text) |->
            LET startTime == IF k = 1 /\ style = "full" THEN 0 ELSE (first + k - 1) * unit
                endTime == IF k = Len(text) /\ style = "full"
                           THEN Max(sampleCount, first + k) * unit
                           ELSE (first + k) * unit
            IN  Entry("word", <<text[k]>>, startTime, endTime,
                      IF nested
                      THEN << Entry("token", <<text[k]>>, startTime, endTime, <<>>) >>
                      ELSE <<>>)]

\* the timeline a backend of long texts returns: one entry for the text,
\* over the samples that voice it
SegmentTimelineOf(text, first, sampleRate) ==
    LET unit == TimeDen \div sampleRate
    IN  << Entry("segment", text, first * unit, (first + Len(text)) * unit, <<>>) >>

\* the result of the engine's synthesize: the audio, and a timeline for the
\* engines that return one
BackendSynthesize(engine, text, profile) ==
    LET audio == BackendAudio(text, profile)
    IN  [rawAudio |-> audio,
         timeline |->
            IF EngineReturnsTimeline(engine)
            THEN Some(WordTimelineOf(text, profile.leadingSilence,
                                     Len(audio.audioChannels[1]), audio.sampleRate,
                                     profile.style, engine = "vits"))
            ELSE IF EngineAlignsSegments(engine)
            THEN Some(SegmentTimelineOf(text, profile.leadingSilence, audio.sampleRate))
            ELSE Undefined]

\* API.alignSegments(audio, segmentTimeline, alignmentOptions): the words of
\* each entry of the segment timeline, within its span of the audio
RECURSIVE AlignSegments(_, _, _)
AlignSegments(audio, segmentTimeline, profile) ==
    IF segmentTimeline = <<>>
    THEN <<>>
    ELSE LET segment == Head(segmentTimeline)
             unit == TimeDen \div audio.sampleRate
         IN  WordTimelineOf(segment.text, segment.startTime \div unit,
                            Len(audio.audioChannels[1]), audio.sampleRate,
                            profile.style, FALSE)
               \o AlignSegments(audio, Tail(segmentTimeline), profile)

\* API.align(audio, plainText, alignmentOptions).wordTimeline
Align(audio, plainText, profile) ==
    WordTimelineOf(plainText, 0, Len(audio.audioChannels[1]), audio.sampleRate,
                   profile.style, FALSE)

(***************************************************************************)
(* Options.  In the options a caller passes every field is optional; in    *)
(* the options the call works with (extended over the defaults) a field    *)
(* holds its value, and engine, language, voice, voiceGender and the       *)
(* postProcessing speed and pitch may still be undefined: None,            *)
(* NoLanguage, the empty name <<>>, None and Undefined.                    *)
(***************************************************************************)
defaultSynthesisOptions ==
    [engine |-> None, language |-> NoLanguage, voice |-> <<>>, voiceGender |-> None,
     speed |-> One, pitch |-> One, ssml |-> FALSE, splitToSentences |-> TRUE,
     segmentEndPause |-> DefaultSegmentEndPause,
     sentenceEndPause |-> DefaultSentenceEndPause,
     postProcessing |->
        [normalizeAudio |-> TRUE, targetPeakDb |-> TargetPeakDb,
         maxIncreaseDb |-> MaxIncreaseDb, speed |-> Undefined, pitch |-> Undefined,
         timePitchShiftingMethod |-> "sonic"],
     vits |-> [speakerId |-> Undefined],
     coquiServer |-> [serverUrl |-> "http://[::1]:5002"],
     googleCloud |-> [apiKey |-> None],
     microsoftAzure |-> [subscriptionKey |-> None, serviceRegion |-> None],
     awsPolly |-> [region |-> None, accessKeyId |-> None, secretAccessKey |-> None],
     elevenlabs |-> [apiKey |-> None],
     microsoftEdge |-> [trustedClientToken |-> None]]

\* the options object {} : no field given
NoOptions ==
    [engine |-> Undefined, language |-> Undefined, voice |-> Undefined,
     voiceGender |-> Undefined, speed |-> Undefined, pitch |-> Undefined,
     ssml |-> Undefined, splitToSentences |-> Undefined,
     segmentEndPause |-> Undefined, sentenceEndPause |-> Undefined,
     postProcessing |->
        [normalizeAudio |-> Undefined, targetPeakDb |-> Undefined,
         maxIncreaseDb |-> Undefined, speed |-> Undefined, pitch |-> Undefined,
         timePitchShiftingMethod |-> Undefined],
     vits |-> [speakerId |-> Undefined],
     coquiServer |-> [serverUrl |-> Undefined],
     googleCloud |-> [apiKey |-> Undefined],
     microsoftAzure |-> [subscriptionKey |-> Undefined, serviceRegion |-> Undefined],
     awsPolly |-> [region |-> Undefined, accessKeyId |-> Undefined,
                   secretAccessKey |-> Undefined],
     elevenlabs |-> [apiKey |-> Undefined],
     microsoftEdge |-> [trustedClientToken |-> Undefined]]

\* the options that are objects themselves
NestedOptions ==
    {"postProcessing", "vits", "coquiServer", "googleCloud", "microsoftAzure", "awsPolly",
     "elevenlabs", "microsoftEdge"}

\* extendDeep(base, extension): the fields the extension gives replace the
\* base's; the nested records are extended field by field.
ExtendDeep(base, extension) ==
    [key \in DOMAIN base |->
        IF key \in NestedOptions
        THEN [inner \in DOMAIN base[key] |->
                 IF extension[key][inner] = Undefined THEN base[key][inner]
                 ELSE extension[key][inner][1]]
        ELSE IF extension[key] = Undefined THEN base[key] ELSE extension[key][1]]

FactorLess(a, b) == a[1] * b[2] < b[1] * a[2]

\* clip(value, min, max)
Clip(value, min, max) ==
    IF FactorLess(value, min) THEN min ELSE IF FactorLess(max, value) THEN max ELSE value

MinScale == <<1, 10>>
MaxScale == <<10, 1>>

(***************************************************************************)
(* The speed and the pitch as the SSML engines take them: strings.  A      *)
(* number in a template literal is written in decimal digits.              *)
(***************************************************************************)
MaleFundementalFrequency == 120
FemaleFundementalFrequency == 210
AverageFundementalFrequency == 165

Digits == <<"0", "1", "2", "3", "4", "5", "6", "7", "8", "9">>

\* `${n}` for a natural number n
RECURSIVE NumberToString(_)
NumberToString(n) ==
    IF n < 10 THEN << Digits[n + 1] >>
    ELSE Append(NumberToString(n \div 10), Digits[(n % 10) + 1])

\* Math.floor of the fraction num / den, den positive
Floor(num, den) == num \div den

\* A mutant of ConvertSpeedScaleToSSMLValueString: a rate below 1 by the
\* part of the speed that is missing, not by the part of the time added.
ConvertSpeedScaleByMissingPart(rate) ==
    IF ~FactorLess(rate, One)
    THEN LET ratePercentage == Floor((rate[1] - rate[2]) * 100, rate[2])
         IN  <<"+">> \o NumberToString(ratePercentage) \o <<"%">>
    ELSE LET ratePercentage == Floor((rate[2] - rate[1]) * 100, rate[2])
         IN  <<"-">> \o NumberToString(ratePercentage) \o <<"%">>

\* convertSpeedScaleToSSMLValueString: (rate - 1) * 100 and
\* ((1 / rate) - 1) * 100 for the rate num / den
ConvertSpeedScaleToSSMLValueString(rate) ==
    IF ~FactorLess(rate, One)
    THEN LET ratePercentage == Floor((rate[1] - rate[2]) * 100, rate[2])
         IN  <<"+">> \o NumberToString(ratePercentage) \o <<"%">>
    ELSE LET ratePercentage == Floor((rate[2] - rate[1]) * 100, rate[1])
         IN  <<"-">> \o NumberToString(ratePercentage) \o <<"%">>

FundementalFrequencyOf(voiceGender) ==
    IF voiceGender = "male" THEN MaleFundementalFrequency
    ELSE IF voiceGender = "female" THEN FemaleFundementalFrequency
    ELSE AverageFundementalFrequency

\* convertPitchScaleToSSMLValueString
ConvertPitchScaleToSSMLValueString(pitch, voiceGender) ==
    LET fundementalFrequency == FundementalFrequencyOf(voiceGender)
    IN  IF ~FactorLess(pitch, One)
        THEN LET pitchDeltaHertz ==
                     Floor(pitch[1] * fundementalFrequency, pitch[2]) - fundementalFrequency
             IN  <<"+">> \o NumberToString(pitchDeltaHertz) \o <<"H", "z">>
        ELSE LET pitchDeltaHertz ==
                     fundementalFrequency - Floor(pitch[1] * fundementalFrequency, pitch[2])
             IN  <<"-">> \o NumberToString(pitchDeltaHertz) \o <<"H", "z">>

\* ssmlPitch of the cases of microsoft-azure and microsoft-edge
SsmlPitchOf(pitchDeltaHz, pitch, voiceGender) ==
    IF pitchDeltaHz # Undefined
    THEN IF pitchDeltaHz[1] >= 0
         THEN <<"+">> \o NumberToString(pitchDeltaHz[1]) \o <<"H", "z">>
         ELSE <<"-">> \o NumberToString(-pitchDeltaHz[1]) \o <<"H", "z">>
    ELSE ConvertPitchScaleToSSMLValueString(pitch, voiceGender)

(***************************************************************************)
(* The inputs of a call.                                                   *)
(***************************************************************************)
SegmentTexts == { <<"!">>, <<" ", "a", "!", " ", "a">> }

RECURSIVE SeqsUpTo(_, _)
SeqsUpTo(S, n) ==
    IF n = 0 THEN { <<>> }
    ELSE LET shorter == SeqsUpTo(S, n - 1)
         IN  shorter \cup { Append(q, x) : q \in { r \in shorter : Len(r) = n - 1 }, x \in S }

SegmentLists == SeqsUpTo(SegmentTexts, MaxSegments)

\* what the caller asks of the pipeline, the voice request left at "en"
PipelineOptions ==
    { [NoOptions EXCEPT
          !.engine = Some(e.engine), !.language = Some(En),
          !.speed = e.speed, !.pitch = e.pitch, !.splitToSentences = Some(split),
          !.segmentEndPause = pause.segment, !.sentenceEndPause = pause.sentence,
          !.postProcessing.speed = e.post,
          !.postProcessing.normalizeAudio = pause.normalize] :
        e \in { [engine |-> "vits", speed |-> Some(<<3, 2>>), pitch |-> Some(<<2, 1>>),
                 post |-> Undefined],
                [engine |-> "espeak", speed |-> Undefined, pitch |-> Undefined,
                 post |-> Undefined],
                [engine |-> "espeak", speed |-> Undefined, pitch |-> Undefined,
                 post |-> Some(<<2, 3>>)],
                [engine |-> "sapi", speed |-> Undefined, pitch |-> Undefined,
                 post |-> Undefined],
                [engine |-> "sapi", speed |-> Some(<<3, 2>>), pitch |-> Undefined,
                 post |-> Undefined],
                [engine |-> "sapi", speed |-> Some(<<3, 2>>), pitch |-> Undefined,
                 post |-> Some(<<2, 3>>)],
                [engine |-> "google-translate", speed |-> Undefined, pitch |-> Undefined,
                 post |-> Undefined] },
        split \in BOOLEAN,
        pause \in { [segment |-> Undefined, sentence |-> Undefined, normalize |-> Undefined],
                    [segment |-> Some(0), sentence |-> Some(0), normalize |-> Some(FALSE)] } }

\* what the caller asks of the options resolver, all else left at the defaults
ResolverOptions ==
    { [NoOptions EXCEPT
          !.engine = e, !.language = l, !.voice = v, !.voiceGender = g, !.ssml = Some(x)] :
        e \in {Undefined, Some("vits"), Some("espeak")},
        l \in {Undefined, Some(LanguageCode("EN", "gb")), Some(De)},
        v \in {Undefined, Some(<<"a">>)},
        g \in {Undefined, Some("Male")},
        x \in BOOLEAN }

\* the languages detectTextLanguage may answer
DetectableLanguages == {En, Fr}

(***************************************************************************)
(* State.                                                                  *)
(***************************************************************************)
VARIABLES
    segments,           \* the segments argument
    options,            \* the options, as extended and resolved by the call
    callbacks,          \* whether onSegment and onSentence were given
    backendProfile,     \* how the backend and the aligner of this call answer
    pc,                 \* where the call stands
    error,              \* the message of the error the call failed with, or None
    result,             \* the SynthesizeSegmentsResult returned, if any
    segmentIndex, sentenceIndex, sentences,
    segmentStartTime, segmentEntry,
    sentencesAudio, sentencesTimelines,
    segmentsAudio, segmentsTimelines,
    timeline, peakDecibelsSoFar, timeOffset,
    synthesis,          \* the locals of the synthesizeSegment call under way
    cancelRequested,    \* what shouldCancelCurrentTask() answers
    voiceListCache,     \* the engines with an up-to-date voice list cache file
    events,             \* the collaborator calls and callbacks so far, in order
    voiceQuery,         \* a voice list and the options of a request on it
    voiceAnswer,        \* what requestVoiceList makes of voiceQuery, if it has
    now,                \* the time of the file system's clock, in seconds
    fileSystem,         \* the files of the cache directories, by path
    requests,           \* the requestVoiceList calls under way, each with its locals
    listingCalls,       \* the calls of the engines' voice listing so far, in order
    responseListeners,  \* the Client's map from request ids to listeners
    clientCalls,        \* the calls of the Client's methods, each with its closure
    received,           \* the frames the WebSocket has received, and the last one
    clientLog,          \* what the Client has logged, in order
    clientState,        \* whether the Client's process runs
    calls,              \* the synthesizeSegments calls that run in one process
    prosody,            \* the speed and pitch of a sentence on their way to an SSML engine
    ascii               \* a string on its way through encodeAscii and decodeAscii

voiceVars == <<voiceQuery, voiceAnswer>>
cacheVars == <<now, fileSystem, requests, listingCalls>>
clientVars == <<responseListeners, clientCalls, received, clientLog, clientState>>
\* the variables the pipeline call leaves alone
otherVars == <<voiceVars, cacheVars, clientVars, calls, prosody, ascii>>
inputVars == <<segments, callbacks, backendProfile>>
segmentVars == <<segmentIndex, sentences, segmentStartTime, segmentsAudio,
                 segmentsTimelines, timeline>>
sentenceVars == <<sentenceIndex, segmentEntry, sentencesAudio, sentencesTimelines,
                  peakDecibelsSoFar, timeOffset>>
vars == <<segments, options, callbacks, backendProfile, pc, error, result,
          segmentIndex, sentenceIndex, sentences, segmentStartTime, segmentEntry,
          sentencesAudio, sentencesTimelines, segmentsAudio, segmentsTimelines,
          timeline, peakDecibelsSoFar, timeOffset, synthesis, cancelRequested,
          voiceListCache, events, voiceQuery, voiceAnswer,
          now, fileSystem, requests, listingCalls,
          responseListeners, clientCalls, received, clientLog, clientState, calls,
          prosody, ascii>>

\* The calls of the model: calls that vary what the pipeline is asked to
\* synthesize and how the backend answers, and calls that vary what the
\* options resolver is asked.
Calls ==
    [segments : SegmentLists, options : PipelineOptions,
     callbacks : { [onSegment |-> TRUE, onSentence |-> TRUE],
                   [onSegment |-> FALSE, onSentence |-> FALSE] },
     backendProfile : BackendProfiles]
    \cup
    [segments : { <<>>, << <<"a">> >>, << <<"<", "a", ">", "a">> >> },
     options : ResolverOptions,
     callbacks : { [onSegment |-> TRUE, onSentence |-> TRUE] },
     backendProfile : { [leadingSilence |-> 0, trailingSilence |-> 0, style |-> "tight"] }]

\* An event of the call: a collaborator is called or has answered, or a
\* callback is called or has returned; with the indices of the segment and of
\* the sentence at hand (-1 when there is none), the number of sentences of
\* the segment, and peakDecibelsSoFar.
Event(type, segment, sentence, total, peak) ==
    [type |-> type, segment |-> segment, sentence |-> sentence, total |-> total,
     peakDecibelsSoFar |-> peak, timeline |-> <<>>]

NoAudio == GetEmptyRawAudio(1, EmptyAudioSampleRate)

\* the locals of synthesizeSegment before anything is assigned; the fields
\* after timeline keep what timeline was at the named places of the function
NoSynthesis ==
    [text |-> <<>>, options |-> defaultSynthesisOptions, selectedVoice |-> Undefined,
     backendAudio |-> NoAudio, backendTimeline |-> Undefined,
     synthesizedAudio |-> NoAudio, timeline |-> Undefined,
     timeStretchFactor |-> Undefined, pitchShiftFactor |-> Undefined,
     timelineAfterTrim |-> Undefined, timelineBeforeShifting |-> Undefined,
     timelineAfterShifting |-> Undefined, shifted |-> FALSE]

\* no request on a voice list of its own
NoVoiceQuery == [allVoices |-> <<>>, options |-> defaultSynthesisOptions]

\* the locals of synthesizeSegments as the call begins
InitLocals ==
    /\ error = None
    /\ result = Undefined
    /\ segmentIndex = 0
    /\ sentenceIndex = 0
    /\ sentences = <<>>
    /\ segmentStartTime = 0
    /\ segmentEntry = Entry("segment", <<>>, 0, -1, <<>>)
    /\ sentencesAudio = <<>>
    /\ sentencesTimelines = <<>>
    /\ segmentsAudio = <<>>
    /\ segmentsTimelines = <<>>
    /\ timeline = <<>>
    /\ peakDecibelsSoFar = MinPeakDecibels
    /\ timeOffset = 0
    /\ synthesis = NoSynthesis
    /\ cancelRequested = FALSE
    /\ voiceListCache = {}
    /\ events = <<>>

(***************************************************************************)
(* The Client of the worker: the messages of the WebSocket, the calls of   *)
(* the Client's methods and the listeners they register.                   *)
(***************************************************************************)
MaxCalls == 2
MaxFrames == 3

\* the values of getRandomHexString(16)
RequestIds == {"a1", "b2"}

\* a message of the worker; requestId None stands for a message without the
\* field, index tells the messages of one type apart
Message(messageType, requestId, index) ==
    [messageType |-> messageType, requestId |-> requestId, index |-> index]

NoMessage == Message(None, None, 0)

\* the values MessagePack decodes to: an object (a message), null, a number
ObjectValue(message) == [type |-> "object", message |-> message]
NullValue == [type |-> "null", message |-> NoMessage]
NumberValue == [type |-> "number", message |-> NoMessage]

\* encodeMsgPack(value): a map, nil or an integer, in MessagePack's format
EncodeMsgPack(value) ==
    [format |-> CASE value.type = "object" -> "map"
                  [] value.type = "null" -> "nil"
                  [] OTHER -> "int",
     body |-> value.message]

\* data that is not MessagePack: decodeMsgPack throws on it
TruncatedData == [format |-> "truncated", body |-> NoMessage]

\* the data of a string frame
TextData == [format |-> "text", body |-> NoMessage]

\* decodeMsgPack(data): the value, or the exception thrown
DecodeMsgPack(data) ==
    CASE data.format = "map" -> [threw |-> FALSE, value |-> ObjectValue(data.body)]
      [] data.format = "nil" -> [threw |-> FALSE, value |-> NullValue]
      [] data.format = "int" -> [threw |-> FALSE, value |-> NumberValue]
      [] OTHER -> [threw |-> TRUE, value |-> NullValue]

\* the messages the worker's side may send
InboundMessages ==
    { Message(messageType, requestId, 0) :
        messageType \in {"SynthesizeSegmentsResponse", "SynthesisSentenceEvent",
                         "VoiceListResponse"},
        requestId \in RequestIds }
    \cup
    { Message("SynthesisSegmentEvent", requestId, index) :
        requestId \in RequestIds, index \in {0, 1} }
    \cup
    { Message("SynthesizeSegmentsResponse", None, 0), Message("SynthesisSegmentEvent", "", 0) }

Frame(isBinary, data) == [isBinary |-> isBinary, data |-> data]

NoFrame == Frame(FALSE, TextData)

\* the frames the WebSocket may receive
Frames ==
    { Frame(TRUE, EncodeMsgPack(ObjectValue(message))) : message \in InboundMessages }
    \cup { Frame(TRUE, EncodeMsgPack(NullValue)), Frame(TRUE, EncodeMsgPack(NumberValue)),
           Frame(TRUE, TruncatedData), Frame(FALSE, TextData) }

\* new OpenPromise()
OpenPromise == [state |-> "pending", value |-> NoMessage, reason |-> None]

\* requestOpenPromise.resolve(value): a promise settled before stays as it is
Resolve(promise, value) ==
    IF promise.state = "pending"
    THEN [state |-> "resolved", value |-> value, reason |-> None]
    ELSE promise

\* requestOpenPromise.reject(e)
Reject(promise, e) ==
    IF promise.state = "pending"
    THEN [state |-> "rejected", value |-> NoMessage, reason |-> e]
    ELSE promise

\* A mutant of ListenerOf: a message with an id finds the listener registered
\* first, whatever its id.
ListenerOfAny(listeners, requestId) ==
    IF \E id \in DOMAIN listeners : listeners[id] = 1 THEN 1 ELSE 0

\* this.responseListeners.get(requestId): the call whose onResponse is
\* registered for the id, 0 when there is none
ListenerOf(listeners, requestId) ==
    IF requestId \in DOMAIN listeners THEN listeners[requestId] ELSE 0

\* A mutant of OnResponse: the onResponse of synthesizeSegments resolves the
\* promise on a segment event too.
OnResponseResolvingOnEvents(call, responseMessage) ==
    IF call.method = "synthesizeSegments"
    THEN IF responseMessage.messageType \in {"SynthesizeSegmentsResponse",
                                             "SynthesisSegmentEvent"}
         THEN [call EXCEPT !.requestOpenPromise = Resolve(@, responseMessage)]
         ELSE IF responseMessage.messageType = "SynthesisSentenceEvent" /\ call.onSentence
         THEN [call EXCEPT !.invoked = Append(@, <<"onSentence", responseMessage>>)]
         ELSE call
    ELSE IF responseMessage.messageType = "VoiceListResponse"
         THEN [call EXCEPT !.requestOpenPromise = Resolve(@, responseMessage)]
         ELSE call

\* onResponse(responseMessage), the closure of a call of synthesizeSegments or
\* of requestVoiceList: the call after it
OnResponse(call, responseMessage) ==
    IF call.method = "synthesizeSegments"
    THEN IF responseMessage.messageType = "SynthesizeSegmentsResponse"
         THEN [call EXCEPT !.requestOpenPromise = Resolve(@, responseMessage)]
         ELSE IF responseMessage.messageType = "SynthesisSegmentEvent" /\ call.onSegment
         THEN [call EXCEPT !.invoked = Append(@, <<"onSegment", responseMessage>>)]
         ELSE IF responseMessage.messageType = "SynthesisSentenceEvent" /\ call.onSentence
         THEN [call EXCEPT !.invoked = Append(@, <<"onSentence", responseMessage>>)]
         ELSE call
    ELSE IF responseMessage.messageType = "VoiceListResponse"
         THEN [call EXCEPT !.requestOpenPromise = Resolve(@, responseMessage)]
         ELSE call

\* A mutant of RegisterListener: the map holds the newest listener only.
RegisterListenerAlone(listeners, requestId, call) ==
    [id \in DOMAIN listeners |-> IF id = requestId THEN call ELSE 0]

\* this.responseListeners.set(requestId, onResponse)
RegisterListener(listeners, requestId, call) == [listeners EXCEPT ![requestId] = call]

(***************************************************************************)
(* Calls of synthesizeSegments that run in one process, each at its place  *)
(* in the loops over its segments and sentences.                           *)
(***************************************************************************)
MaxConcurrentCalls == 2

CallIds == 1 .. MaxConcurrentCalls

\* the numbers of sentences of the segments of a call
SentenceCounts == { <<1>>, <<2>>, <<1, 2>> }

NoCall == [pc |-> "none", sentenceCounts |-> <<>>, segmentIndex |-> 0, sentenceIndex |-> 0,
           error |-> None]

\* no speed and pitch are on their way to an SSML engine
NoProsody ==
    [pc |-> "none", engine |-> None, speed |-> One, pitch |-> One, voiceGender |-> None,
     pitchDeltaHz |-> Undefined, ssmlRate |-> <<>>, ssmlPitch |-> <<>>]

\* no string is on its way through encodeAscii and decodeAscii
NoAscii ==
    [pc |-> "none", input |-> <<>>, chunkSize |-> 0, source |-> None, threw |-> None,
     at |-> 0, buffer |-> Undefined, decoded |-> Undefined]

\* no call runs
InitCalls == calls = [c \in CallIds |-> NoCall]

\* a Client just constructed
InitClient ==
    /\ responseListeners = [requestId \in RequestIds |-> 0]
    /\ clientCalls = <<>>
    /\ received = [count |-> 0, frame |-> NoFrame]
    /\ clientLog = <<>>
    /\ clientState = "running"

(***************************************************************************)
(* The voice list cache of requestVoiceList: one file for each cache       *)
(* directory and engine, read and written by the requests under way.       *)
(***************************************************************************)
MaxRequests == 2
MaxTime == 3

Requests == 1 .. MaxRequests

\* the engines, the cache directories (options.cache.path) and the times to
\* live (options.cache.duration, in seconds) of the requests
CacheEngines == {"vits", "espeak"}
CacheDirs == {"d1"}
CacheDurations == {2}

\* path.join(cacheDir, `${options.engine}.voices.json`)
CacheFilePath(cacheDir, engine) == <<cacheDir, engine, ".voices.json">>

CachePaths == { CacheFilePath(cacheDir, engine) : cacheDir \in CacheDirs, engine \in CacheEngines }

\* stringifyAndFormatJson of a voice list: an object for each voice, with the
\* keys of the fields that are there
StringifyAndFormatJson(voiceList) ==
    [i \in DOMAIN voiceList |->
        [name |-> voiceList[i].name,
         languages |-> voiceList[i].languages,
         gender |-> voiceList[i].gender,
         speakerCount |-> IF voiceList[i].speakerCount = 0 THEN <<>>
                          ELSE <<voiceList[i].speakerCount>>,
         packageName |-> IF voiceList[i].packageName = <<>> THEN <<>>
                         ELSE <<voiceList[i].packageName>>]]

\* readAndParseJsonFile of the content of a cache file
ReadAndParseJsonFile(content) ==
    [i \in DOMAIN content |->
        [name |-> content[i].name,
         languages |-> content[i].languages,
         gender |-> content[i].gender,
         speakerCount |-> IF content[i].speakerCount = <<>> THEN 0
                          ELSE content[i].speakerCount[1],
         packageName |-> IF content[i].packageName = <<>> THEN <<>>
                         ELSE content[i].packageName[1]]]

\* isFileIsUpToDate(filePath, timeRangeSeconds): the file was modified later
\* than timeRangeSeconds ago
IsFileIsUpToDate(file, time, timeRangeSeconds) == file.modified > time - timeRangeSeconds

\* A mutant of CacheIsFresh: a cache file that exists is up to date.
CacheIsFreshWhenever(files, filePath, time, duration) == files[filePath] # Undefined

\* cacheFilePath && existsSync(cacheFilePath) && await isFileIsUpToDate(...)
CacheIsFresh(files, filePath, time, duration) ==
    /\ files[filePath] # Undefined
    /\ IsFileIsUpToDate(files[filePath][1], time, duration)

\* what the voice listing of an engine may answer: the voices installed at
\* the time, all of the engine's or the first of them only
ListingAnswers(engine) ==
    { SubSeq(LoadVoiceList(engine), 1, n) : n \in {1, Len(LoadVoiceList(engine))} }

NoRequest ==
    [state |-> "none", engine |-> None, cacheDir |-> None, duration |-> 0, voiceList |-> <<>>]

\* no request is under way and no cache file is there
InitCache ==
    /\ now = 0
    /\ fileSystem = [filePath \in CachePaths |-> Undefined]
    /\ requests = [r \in Requests |-> NoRequest]
    /\ listingCalls = <<>>

Init ==
    /\ InitCache
    /\ InitClient
    /\ InitCalls
    /\ prosody = NoProsody
    /\ ascii = NoAscii
    /\ \E call \in Calls :
          /\ segments = call.segments
          /\ options = ExtendDeep(defaultSynthesisOptions, call.options)
          /\ callbacks = call.callbacks
          /\ backendProfile = call.backendProfile
    /\ pc = "start"
    /\ InitLocals
    /\ voiceQuery = NoVoiceQuery
    /\ voiceAnswer = Undefined

\* throw new Error(message): the call fails and returns nothing
Throw(message) ==
    /\ pc' = "failed"
    /\ error' = message
    /\ UNCHANGED result

(***************************************************************************)
(* requestVoiceList.  The cache file of an engine holds the list its last  *)
(* load wrote, so a read of an up-to-date file gives the list a load gives.*)
(***************************************************************************)
\* A mutant of RequestVoiceList: when the filters leave no voice, the first
\* voice of the engine is the best matching voice.
RequestVoiceListFallsBack(requestOptions, cache) ==
    LET allVoices == LoadVoiceList(requestOptions.engine)
        selected == SelectFromVoiceList(allVoices, requestOptions)
    IN  [voiceList |-> selected.voiceList,
         bestMatchingVoice |->
             IF selected.bestMatchingVoice = Undefined /\ allVoices # <<>>
             THEN Some(allVoices[1])
             ELSE selected.bestMatchingVoice,
         loaded |-> requestOptions.engine \notin cache,
         cache |-> cache \cup {requestOptions.engine}]

RequestVoiceList(requestOptions, cache) ==
    LET selected == SelectFromVoiceList(LoadVoiceList(requestOptions.engine), requestOptions)
    IN  [voiceList |-> selected.voiceList,
         bestMatchingVoice |-> selected.bestMatchingVoice,
         loaded |-> requestOptions.engine \notin cache,
         cache |-> cache \cup {requestOptions.engine}]

(***************************************************************************)
(* synthesizeSegments: the resolution of the options.                      *)
(***************************************************************************)
\* A mutant of ShouldDetectLanguage: the language is detected whenever none is
\* given, a voice named or not.
ShouldDetectLanguageWithoutVoice(callOptions) == callOptions.language = NoLanguage

\* !options.language && !options.voice
ShouldDetectLanguage(callOptions) ==
    callOptions.language = NoLanguage /\ callOptions.voice = <<>>

ResolveOptions ==
    /\ pc = "start"
    /\ LET detect == ShouldDetectLanguage(options)
       IN  \E detectedLanguage \in (IF detect THEN DetectableLanguages ELSE {NoLanguage}) :
            LET withLanguage ==
                    IF detect THEN [options EXCEPT !.language = detectedLanguage] ELSE options
                detected == IF detect
                            THEN << Event("detectTextLanguage", -1, -1, 0, peakDecibelsSoFar) >>
                            ELSE <<>>
            IN  IF withLanguage.engine = None /\ withLanguage.voice # <<>>
                THEN /\ Throw("Voice was specified but no engine was specified.")
                     /\ options' = withLanguage
                     /\ events' = events \o detected
                     /\ UNCHANGED voiceListCache
                ELSE LET withEngine ==
                             IF withLanguage.engine = None
                             THEN [withLanguage EXCEPT !.engine =
                                      SelectBestOfflineEngineForLanguage(withLanguage.language)]
                             ELSE withLanguage
                         selected ==
                             IF withLanguage.engine = None
                             THEN << Event("selectBestOfflineEngineForLanguage", -1, -1, 0,
                                           peakDecibelsSoFar) >>
                             ELSE <<>>
                         request == RequestVoiceList(withEngine, voiceListCache)
                         listed == IF request.loaded
                                   THEN << Event("listVoices", -1, -1, 0, peakDecibelsSoFar) >>
                                   ELSE <<>>
                     IN  /\ voiceListCache' = request.cache
                         /\ events' = events \o detected \o selected \o listed
                         /\ IF request.bestMatchingVoice = Undefined
                            THEN /\ Throw("No matching voice found")
                                 /\ options' = withEngine
                            ELSE /\ options' =
                                     [withEngine EXCEPT
                                         !.voice = request.bestMatchingVoice[1].name,
                                         !.language =
                                             IF @ = NoLanguage
                                             THEN request.bestMatchingVoice[1].languages[1]
                                             ELSE @]
                                 /\ pc' = "segmentLoop"
                                 /\ UNCHANGED <<error, result>>
    /\ UNCHANGED <<otherVars, inputVars, segmentVars, sentenceVars, synthesis, cancelRequested>>

(***************************************************************************)
(* synthesizeSegments: the loop over the segments.                         *)
(***************************************************************************)
\* A mutant of SentencesOf: without the sentence put in when none is left.
SentencesOfWithoutFallback(segmentText, callOptions) ==
    IF (callOptions.splitToSentences \/ callOptions.engine = "vits") /\ ~callOptions.ssml
    THEN SelectSeq(SplitToSentences(segmentText, callOptions.language),
                   LAMBDA sentence : Trim(sentence) # <<>>)
    ELSE << segmentText >>

\* the sentences of a segment
SentencesOf(segmentText, callOptions) ==
    IF (callOptions.splitToSentences \/ callOptions.engine = "vits") /\ ~callOptions.ssml
    THEN LET nonEmpty == SelectSeq(SplitToSentences(segmentText, callOptions.language),
                                   LAMBDA sentence : Trim(sentence) # <<>>)
         IN  IF Len(nonEmpty) = 0 THEN << <<>> >> ELSE nonEmpty
    ELSE << segmentText >>

BeginSegment ==
    /\ pc = "segmentLoop"
    /\ segmentIndex < Len(segments)
    /\ LET segmentText == Trim(segments[segmentIndex + 1])
       IN  /\ segmentStartTime' = timeOffset
           /\ segmentEntry' = Entry("segment", segmentText, timeOffset, -1, <<>>)
           /\ sentences' = SentencesOf(segmentText, options)
    /\ sentencesAudio' = <<>>
    /\ sentencesTimelines' = <<>>
    /\ sentenceIndex' = 0
    /\ pc' = "sentenceLoop"
    /\ UNCHANGED <<otherVars, inputVars, options, error, result, segmentIndex, segmentsAudio,
                   segmentsTimelines, timeline, peakDecibelsSoFar, timeOffset,
                   synthesis, cancelRequested, voiceListCache, events>>

\* shouldCancelCurrentTask()
ShouldCancelCurrentTask == cancelRequested

\* A mutant of CancelAtCheckpoint: the loops are left and what was synthesized
\* so far is returned.
CancelAtCheckpointReturns ==
    /\ pc = "sentenceLoop"
    /\ sentenceIndex < Len(sentences)
    /\ ShouldCancelCurrentTask
    /\ result' = Some([synthesizedAudio |-> NoAudio, timeline |-> timeline,
                       segmentsAudio |-> segmentsAudio,
                       segmentsTimelines |-> segmentsTimelines])
    /\ pc' = "done"
    /\ UNCHANGED <<otherVars, inputVars, options, error, segmentVars, sentenceVars,
                   synthesis, cancelRequested, voiceListCache, events>>

\* The checkpoint before a sentence, the predicate answering true.
CancelAtCheckpoint ==
    /\ pc = "sentenceLoop"
    /\ sentenceIndex < Len(sentences)
    /\ ShouldCancelCurrentTask
    /\ Throw("Canceled")
    /\ UNCHANGED <<otherVars, inputVars, options, segmentVars, sentenceVars, synthesis,
                   cancelRequested, voiceListCache, events>>

\* The checkpoint passed: synthesizeSegment is called and runs up to the
\* call of the engine's synthesize.
(***************************************************************************)
(* synthesizeSegment: what the case of each engine checks before it calls  *)
(* the engine's synthesize.                                                *)
(***************************************************************************)
\* the engines the dispatch has a case for
AllEngines ==
    {"vits", "pico", "flite", "espeak", "sam", "sapi", "msspeech", "coqui-server",
     "google-cloud", "microsoft-azure", "amazon-polly", "elevenlabs", "google-translate",
     "microsoft-edge", "streamlabs-polly"}

\* !value, of a string option: it is undefined or the empty string
IsFalsy(value) == value \in {None, ""}

\* await sha256AsHex(trustedClientToken) == "558d7c6a..."
IsTrustedClientToken(token) == token = "trusted"

\* A mutant of SpeakerIdError: a speaker id equal to the speaker count passes.
SpeakerIdErrorAboveCount(speakerId, selectedVoice) ==
    IF speakerId = Undefined THEN None
    ELSE IF selectedVoice.speakerCount = 0
    THEN (IF speakerId[1] # 0
          THEN "Selected VITS model has only one speaker. Speaker ID must be 0 if specified."
          ELSE None)
    ELSE IF speakerId[1] < 0 \/ speakerId[1] > selectedVoice.speakerCount
    THEN "Selected VITS model has speakerCount voices. Speaker ID should be in the range"
    ELSE None

\* the checks of options.vits.speakerId against the selected voice
SpeakerIdError(speakerId, selectedVoice) ==
    IF speakerId = Undefined THEN None
    ELSE IF selectedVoice.speakerCount = 0
    THEN (IF speakerId[1] # 0
          THEN "Selected VITS model has only one speaker. Speaker ID must be 0 if specified."
          ELSE None)
    ELSE IF speakerId[1] < 0 \/ speakerId[1] >= selectedVoice.speakerCount
    THEN "Selected VITS model has speakerCount voices. Speaker ID should be in the range"
    ELSE None

\* the error the case of the engine throws before the engine's synthesize is
\* called, None when it throws none
EngineConfigurationError(callOptions, selectedVoice) ==
    LET engine == callOptions.engine
        isSSML == callOptions.ssml
    IN  CASE engine = "vits" ->
                IF isSSML THEN "The VITS engine doesn't currently support SSML inputs"
                ELSE SpeakerIdError(callOptions.vits.speakerId, selectedVoice)
          [] engine = "pico" ->
                IF isSSML THEN "The Svox Pico engine doesn't currently support SSML inputs"
                ELSE None
          [] engine = "flite" ->
                IF isSSML THEN "The Flite engine doesn't currently support SSML inputs"
                ELSE None
          [] engine = "espeak" -> None
          [] engine = "sam" ->
                IF isSSML THEN "The SAM engine doesn't support SSML inputs" ELSE None
          [] engine = "sapi" ->
                IF isSSML THEN "The SAPI engine doesn't currently support SSML inputs"
                ELSE None
          [] engine = "msspeech" ->
                IF isSSML THEN "The MSSpeech engine doesn't currently support SSML inputs"
                ELSE None
          [] engine = "coqui-server" ->
                IF isSSML THEN "The Coqui Server engine doesn't support SSML inputs"
                ELSE IF IsFalsy(callOptions.coquiServer.serverUrl)
                THEN "'coqui-server' requires a server URL"
                ELSE None
          [] engine = "google-cloud" ->
                IF IsFalsy(callOptions.googleCloud.apiKey) THEN "No API key given" ELSE None
          [] engine = "microsoft-azure" ->
                IF IsFalsy(callOptions.microsoftAzure.subscriptionKey)
                THEN "No subscription key given"
                ELSE IF IsFalsy(callOptions.microsoftAzure.serviceRegion)
                THEN "No service region given"
                ELSE None
          [] engine = "amazon-polly" ->
                IF IsFalsy(callOptions.awsPolly.region) THEN "No region given"
                ELSE IF IsFalsy(callOptions.awsPolly.accessKeyId)
                THEN "No access key id given"
                ELSE IF IsFalsy(callOptions.awsPolly.secretAccessKey)
                THEN "No secret access key given"
                ELSE None
          [] engine = "elevenlabs" ->
                IF isSSML THEN "The Elevenlabs engine doesn't support SSML inputs"
                ELSE IF IsFalsy(callOptions.elevenlabs.apiKey)
                THEN "No ElevenLabs API key given"
                ELSE None
          [] engine = "google-translate" ->
                IF isSSML THEN "The Google Translate engine doesn't support SSML inputs"
                ELSE None
          [] engine = "microsoft-edge" ->
                IF isSSML THEN "The Microsoft Edge engine doesn't support SSML inputs"
                ELSE IF IsFalsy(callOptions.microsoftEdge.trustedClientToken)
                THEN "No trusted client token provided."
                ELSE IF ~IsTrustedClientToken(callOptions.microsoftEdge.trustedClientToken)
                THEN "Trusted client token is incorrect."
                ELSE None
          [] engine = "streamlabs-polly" ->
                IF isSSML
                THEN "The Streamlabs Polly Engine engine doesn't support SSML inputs"
                ELSE None
          [] OTHER -> "Engine is not supported"

\* the error loadVoiceList throws before the engine's voices are listed, None
\* when it throws none
LoadVoiceListError(requestOptions) ==
    LET engine == requestOptions.engine
    IN  CASE engine = "google-cloud" ->
                IF IsFalsy(requestOptions.googleCloud.apiKey) THEN "No API key given" ELSE None
          [] engine = "microsoft-azure" ->
                IF IsFalsy(requestOptions.microsoftAzure.subscriptionKey)
                THEN "No subscription key given"
                ELSE IF IsFalsy(requestOptions.microsoftAzure.serviceRegion)
                THEN "No service region given"
                ELSE None
          [] engine = "amazon-polly" ->
                IF IsFalsy(requestOptions.awsPolly.region) THEN "No region given"
                ELSE IF IsFalsy(requestOptions.awsPolly.accessKeyId)
                THEN "No access key id given"
                ELSE IF IsFalsy(requestOptions.awsPolly.secretAccessKey)
                THEN "No secret access key given"
                ELSE None
          [] engine = "microsoft-edge" ->
                IF IsFalsy(requestOptions.microsoftEdge.trustedClientToken)
                THEN "No trusted client token provided"
                ELSE None
          [] OTHER -> None

StartSentence ==
    /\ pc = "sentenceLoop"
    /\ sentenceIndex < Len(sentences)
    /\ ~ShouldCancelCurrentTask
    /\ LET sentenceText == Trim(sentences[sentenceIndex + 1])
           sentenceSynthesisOptions ==
               ExtendDeep(options,
                          [NoOptions EXCEPT !.postProcessing.normalizeAudio = Some(FALSE)])
           request == RequestVoiceList(sentenceSynthesisOptions, voiceListCache)
           listed == IF request.loaded
                     THEN << Event("listVoices", segmentIndex, sentenceIndex,
                                   Len(sentences), peakDecibelsSoFar) >>
                     ELSE <<>>
       IN  /\ voiceListCache' = request.cache
           /\ IF request.bestMatchingVoice = Undefined
              THEN /\ Throw("No matching voice found")
                   /\ events' = events \o listed
                   /\ UNCHANGED synthesis
              ELSE IF EngineConfigurationError(sentenceSynthesisOptions,
                                               request.bestMatchingVoice[1]) # None
              THEN /\ Throw(EngineConfigurationError(sentenceSynthesisOptions,
                                                     request.bestMatchingVoice[1]))
                   /\ events' = events \o listed
                   /\ UNCHANGED synthesis
              ELSE /\ synthesis' = [NoSynthesis EXCEPT
                                       !.text = sentenceText,
                                       !.options = sentenceSynthesisOptions,
                                       !.selectedVoice = request.bestMatchingVoice]
                   /\ events' = events \o listed
                          \o << Event("synthesize", segmentIndex, sentenceIndex,
                                      Len(sentences), peakDecibelsSoFar) >>
                   /\ pc' = "backend"
                   /\ UNCHANGED <<error, result>>
    /\ UNCHANGED <<otherVars, inputVars, options, segmentVars, sentenceVars, cancelRequested>>

(***************************************************************************)
(* synthesizeSegment: after the engine's synthesize has answered.          *)
(***************************************************************************)
\* A mutant of ShiftTimelineAfterTrim: the offset is the old duration less the
\* new one.
ShiftTimelineByOldLessNew(backendTimeline, preTrimSampleCount, trimmedAudio) ==
    IF backendTimeline # Undefined
    THEN LET oldDuration == (preTrimSampleCount * TimeDen) \div trimmedAudio.sampleRate
             newDuration == (Len(trimmedAudio.audioChannels[1]) * TimeDen)
                                \div trimmedAudio.sampleRate
         IN  Some(AddTimeOffsetToTimeline(backendTimeline[1], oldDuration - newDuration))
    ELSE backendTimeline

\* The timeline a backend returned, after the leading silence was trimmed:
\* shifted by the new duration less the old one.
ShiftTimelineAfterTrim(backendTimeline, preTrimSampleCount, trimmedAudio) ==
    IF backendTimeline # Undefined
    THEN LET oldDuration == (preTrimSampleCount * TimeDen) \div trimmedAudio.sampleRate
             newDuration == (Len(trimmedAudio.audioChannels[1]) * TimeDen)
                                \div trimmedAudio.sampleRate
         IN  Some(AddTimeOffsetToTimeline(backendTimeline[1], newDuration - oldDuration))
    ELSE backendTimeline

BackendReturn ==
    /\ pc = "backend"
    /\ LET answer == BackendSynthesize(synthesis.options.engine, synthesis.text, backendProfile)
           mono == DownmixToMono(answer.rawAudio)
           levelled ==
               IF synthesis.options.postProcessing.normalizeAudio
               THEN NormalizeAudioLevel(mono, synthesis.options.postProcessing.targetPeakDb,
                                        synthesis.options.postProcessing.maxIncreaseDb)
               ELSE mono
           preTrimSampleCount == Len(levelled.audioChannels[1])
           trimmedAudio ==
               [levelled EXCEPT !.audioChannels[1] = TrimAudioStart(@, 0, SilenceThresholdDb)]
           caseTimeline ==
               IF EngineAlignsSegments(synthesis.options.engine)
               THEN Some(AlignSegments(answer.rawAudio, answer.timeline[1], backendProfile))
               ELSE answer.timeline
           shiftedTimeline ==
               ShiftTimelineAfterTrim(caseTimeline, preTrimSampleCount, trimmedAudio)
       IN  /\ synthesis' = [synthesis EXCEPT
                               !.backendAudio = answer.rawAudio,
                               !.backendTimeline = caseTimeline,
                               !.synthesizedAudio = trimmedAudio,
                               !.timeline = shiftedTimeline,
                               !.timelineAfterTrim = shiftedTimeline]
           /\ pc' = IF shiftedTimeline = Undefined THEN "align" ELSE "postprocess"
    /\ events' = events
                   \o << Event("synthesized", segmentIndex, sentenceIndex,
                               Len(sentences), peakDecibelsSoFar) >>
                   \o IF EngineAlignsSegments(synthesis.options.engine)
                      THEN << Event("alignSegments", segmentIndex, sentenceIndex,
                                    Len(sentences), peakDecibelsSoFar) >>
                      ELSE <<>>
    /\ UNCHANGED <<otherVars, inputVars, options, error, result, segmentVars, sentenceVars,
                   cancelRequested, voiceListCache>>

\* A mutant of AlignReturn: the text is aligned as it is, SSML or not.
AlignReturnVerbatim ==
    /\ pc = "align"
    /\ LET wordTimeline == Align(synthesis.synthesizedAudio, synthesis.text, backendProfile)
       IN  synthesis' = [synthesis EXCEPT !.timeline = Some(wordTimeline)]
    /\ events' = Append(events, Event("align", segmentIndex, sentenceIndex,
                                      Len(sentences), peakDecibelsSoFar))
    /\ pc' = "postprocess"
    /\ UNCHANGED <<otherVars, inputVars, options, error, result, segmentVars, sentenceVars,
                   cancelRequested, voiceListCache>>

\* The aligner answers: the backend returned no timeline.
AlignReturn ==
    /\ pc = "align"
    /\ LET plainText == IF synthesis.options.ssml
                        THEN ConvertHtmlToText(synthesis.text)
                        ELSE synthesis.text
           wordTimeline == Align(synthesis.synthesizedAudio, plainText, backendProfile)
       IN  synthesis' = [synthesis EXCEPT !.timeline = Some(wordTimeline)]
    /\ events' = Append(events, Event("align", segmentIndex, sentenceIndex,
                                      Len(sentences), peakDecibelsSoFar))
    /\ pc' = "postprocess"
    /\ UNCHANGED <<otherVars, inputVars, options, error, result, segmentVars, sentenceVars,
                   cancelRequested, voiceListCache>>

\* A mutant of TimeStretchFactorOf: the requested speed is taken whether the
\* engine leaves it to the postprocessing or not.
TimeStretchFactorAlwaysRequested(synthesisOptions) ==
    IF synthesisOptions.postProcessing.speed = Undefined
    THEN Clip(synthesisOptions.speed, MinScale, MaxScale)
    ELSE synthesisOptions.postProcessing.speed

\* timeStretchFactor, as it stands before the test that decides on shifting
TimeStretchFactorOf(synthesisOptions) ==
    IF EngineDefersSpeed(synthesisOptions.engine)
          /\ synthesisOptions.postProcessing.speed = Undefined
    THEN Clip(synthesisOptions.speed, MinScale, MaxScale)
    ELSE synthesisOptions.postProcessing.speed

\* pitchShiftFactor, as it stands before the test that decides on shifting
PitchShiftFactorOf(synthesisOptions) ==
    IF EngineDefersPitch(synthesisOptions.engine)
          /\ synthesisOptions.postProcessing.pitch = Undefined
    THEN Clip(synthesisOptions.pitch, MinScale, MaxScale)
    ELSE synthesisOptions.postProcessing.pitch

\* factor || 1.0
OrOne(factor) == IF factor = Undefined THEN One ELSE factor

ShouldShift(timeStretchFactor, pitchShiftFactor) ==
    \/ timeStretchFactor # Undefined /\ timeStretchFactor # One
    \/ pitchShiftFactor # Undefined /\ pitchShiftFactor # One

\* A mutant of RescaleTimeline: the timeline is multiplied by the factor itself.
RescaleTimelineByFactor(sentenceTimeline, timeStretchFactor) ==
    IF timeStretchFactor # One /\ sentenceTimeline # Undefined
    THEN Some(MultiplyTimelineByFactor(sentenceTimeline[1], timeStretchFactor))
    ELSE sentenceTimeline

\* the timeline after the audio was stretched by the factor
RescaleTimeline(sentenceTimeline, timeStretchFactor) ==
    IF timeStretchFactor # One /\ sentenceTimeline # Undefined
    THEN Some(MultiplyTimelineByFactor(sentenceTimeline[1], Reciprocal(timeStretchFactor)))
    ELSE sentenceTimeline

\* A mutant of FilterWords: nothing is dropped.
FilterNothing(sentenceTimeline) == sentenceTimeline

\* timeline.filter(entry => isWord(entry.text))
FilterWords(sentenceTimeline) ==
    IF sentenceTimeline # Undefined
    THEN Some(SelectSeq(sentenceTimeline[1], LAMBDA entry : IsWord(entry.text)))
    ELSE sentenceTimeline

\* The rest of synthesizeSegment, from the time and pitch shifting to the
\* return: the audio, the timeline, and what timeline was on the way.
PostprocessSentence(locals) ==
    LET timeStretchFactor == TimeStretchFactorOf(locals.options)
        pitchShiftFactor == PitchShiftFactorOf(locals.options)
        shift == ShouldShift(timeStretchFactor, pitchShiftFactor)
        shiftedAudio ==
            IF shift
            THEN StretchTimePitch(locals.synthesizedAudio, OrOne(timeStretchFactor),
                                  OrOne(pitchShiftFactor))
            ELSE locals.synthesizedAudio
        shiftedTimeline ==
            IF shift THEN RescaleTimeline(locals.timeline, OrOne(timeStretchFactor))
            ELSE locals.timeline
    IN  [locals EXCEPT
            !.timeStretchFactor = IF shift THEN OrOne(timeStretchFactor) ELSE timeStretchFactor,
            !.pitchShiftFactor = IF shift THEN OrOne(pitchShiftFactor) ELSE pitchShiftFactor,
            !.shifted = shift,
            !.timelineBeforeShifting = locals.timeline,
            !.timelineAfterShifting = shiftedTimeline,
            !.synthesizedAudio = shiftedAudio,
            !.timeline = FilterWords(shiftedTimeline)]

(***************************************************************************)
(* synthesizeSegments: after synthesizeSegment has returned.               *)
(***************************************************************************)
\* A mutant of EndPauseOf: every sentence gets the pause of an inner sentence.
EndPauseAlwaysSentence(index, sentenceCount, callOptions) == callOptions.sentenceEndPause

EndPauseOf(index, sentenceCount, callOptions) ==
    IF index = sentenceCount - 1
    THEN callOptions.segmentEndPause
    ELSE callOptions.sentenceEndPause

\* the sentence audio with its end trimmed to the pause
TrimSentenceEnd(sentenceAudio, endPause) ==
    [sentenceAudio EXCEPT !.audioChannels[1] =
        TrimAudioEnd(@, (endPause * sentenceAudio.sampleRate) \div TimeDen,
                     SilenceThresholdDb)]

\* A mutant of SentenceEntryOf: the words are offset by the time after the sentence.
SentenceEntryOffsetByEnd(sentenceText, sentenceStartTime, endTime, sentenceTimeline) ==
    Entry("sentence", sentenceText, sentenceStartTime, endTime,
          AddTimeOffsetToTimeline(sentenceTimeline, endTime))

\* the entry pushed to segmentEntry.timeline
SentenceEntryOf(sentenceText, sentenceStartTime, endTime, sentenceTimeline) ==
    Entry("sentence", sentenceText, sentenceStartTime, endTime,
          AddTimeOffsetToTimeline(sentenceTimeline, sentenceStartTime))

\* A mutant of NextSentenceIndex: a sentence is skipped.
SkipSentenceIndex(index) == index + 2

\* sentenceIndex++
NextSentenceIndex(index) == index + 1

\* A mutant of PeakDecibelsAfter: the peak of the last sentence alone.
PeakDecibelsOfSentence(peakSoFar, sentenceAudio) ==
    GetAudioPeakDecibels(sentenceAudio.audioChannels)

\* peakDecibelsSoFar = Math.max(peakDecibelsSoFar, getAudioPeakDecibels(...))
PeakDecibelsAfter(peakSoFar, sentenceAudio) ==
    Max(peakSoFar, GetAudioPeakDecibels(sentenceAudio.audioChannels))

FinishSentence ==
    /\ pc = "postprocess"
    /\ LET returned == PostprocessSentence(synthesis)
           method == synthesis.options.postProcessing.timePitchShiftingMethod
       IN  IF returned.shifted /\ method \notin {"sonic", "rubberband"}
           THEN /\ Throw("not a valid time and pitch shifting method")
                /\ UNCHANGED <<sentenceVars, synthesis, events>>
           ELSE LET endPause == EndPauseOf(sentenceIndex, Len(sentences), options)
                    sentenceAudio == TrimSentenceEnd(returned.synthesizedAudio, endPause)
                    sentenceTimeline == returned.timeline[1]
                    sentenceStartTime == timeOffset
                    sentenceAudioLength == Duration(sentenceAudio)
                    peak == PeakDecibelsAfter(peakDecibelsSoFar, sentenceAudio)
                    stretched ==
                        IF returned.shifted
                        THEN << Event("stretchTimePitch", segmentIndex, sentenceIndex,
                                      Len(sentences), peakDecibelsSoFar) >>
                        ELSE <<>>
                IN  /\ synthesis' = [returned EXCEPT !.synthesizedAudio = sentenceAudio]
                    /\ sentencesAudio' = Append(sentencesAudio, sentenceAudio)
                    /\ sentencesTimelines' =
                           IF Len(sentenceTimeline) > 0
                           THEN Append(sentencesTimelines, sentenceTimeline)
                           ELSE sentencesTimelines
                    /\ timeOffset' = timeOffset + sentenceAudioLength
                    /\ segmentEntry' =
                           [segmentEntry EXCEPT !.timeline =
                               Append(@, SentenceEntryOf(synthesis.text, sentenceStartTime,
                                                         timeOffset + sentenceAudioLength,
                                                         sentenceTimeline))]
                    /\ peakDecibelsSoFar' = peak
                    /\ IF callbacks.onSentence
                       THEN /\ events' = events \o stretched
                                   \o << Event("onSentence", segmentIndex, sentenceIndex,
                                               Len(sentences), peak) >>
                            /\ pc' = "onSentence"
                            /\ UNCHANGED sentenceIndex
                       ELSE /\ events' = events \o stretched
                            /\ pc' = "sentenceLoop"
                            /\ sentenceIndex' = NextSentenceIndex(sentenceIndex)
                    /\ UNCHANGED <<error, result>>
    /\ UNCHANGED <<otherVars, inputVars, options, segmentVars, cancelRequested, voiceListCache>>

\* A mutant of OnSentenceReturn: cancellation is also looked at when the
\* callback returns.
OnSentenceReturnChecksCancel ==
    /\ pc = "onSentence"
    /\ IF ShouldCancelCurrentTask
       THEN /\ Throw("Canceled")
            /\ UNCHANGED <<events, sentenceIndex>>
       ELSE /\ events' = Append(events, Event("onSentenceReturned", segmentIndex,
                                              sentenceIndex, Len(sentences),
                                              peakDecibelsSoFar))
            /\ sentenceIndex' = NextSentenceIndex(sentenceIndex)
            /\ pc' = "sentenceLoop"
            /\ UNCHANGED <<error, result>>
    /\ UNCHANGED <<otherVars, inputVars, options, segmentVars, segmentEntry,
                   sentencesAudio, sentencesTimelines, peakDecibelsSoFar, timeOffset,
                   synthesis, cancelRequested, voiceListCache>>

\* The onSentence callback has returned.
OnSentenceReturn ==
    /\ pc = "onSentence"
    /\ events' = Append(events, Event("onSentenceReturned", segmentIndex, sentenceIndex,
                                      Len(sentences), peakDecibelsSoFar))
    /\ sentenceIndex' = NextSentenceIndex(sentenceIndex)
    /\ pc' = "sentenceLoop"
    /\ UNCHANGED <<otherVars, inputVars, options, error, result, segmentVars, segmentEntry,
                   sentencesAudio, sentencesTimelines, peakDecibelsSoFar, timeOffset,
                   synthesis, cancelRequested, voiceListCache>>

\* A mutant of SegmentTimelineWithoutOffset: the sentences are shifted, what
\* is below them is not.
SegmentTimelineShiftedAtTop(entries, offset) ==
    [i \in 1..Len(entries) |->
        [entries[i] EXCEPT !.startTime = @ - offset,
                           !.endTime = @ - offset]]

\* segmentTimelineWithoutOffset
SegmentTimelineWithoutOffset(entries, offset) ==
    AddTimeOffsetToTimeline(entries, -offset)

\* A mutant of SegmentAudioOf: the last sentence is left out.
SegmentAudioWithoutLast(parts) ==
    IF Len(parts) > 1
    THEN [audioChannels |->
              ConcatAudioSegments([i \in 1..(Len(parts) - 1) |-> parts[i].audioChannels]),
          sampleRate |-> parts[1].sampleRate]
    ELSE GetEmptyRawAudio(1, EmptyAudioSampleRate)

\* the audio of a segment from its sentences', and of the result from the segments'
SegmentAudioOf(parts) ==
    IF Len(parts) > 0
    THEN [audioChannels |->
              ConcatAudioSegments([i \in 1..Len(parts) |-> parts[i].audioChannels]),
          sampleRate |-> parts[1].sampleRate]
    ELSE GetEmptyRawAudio(1, EmptyAudioSampleRate)

EndSegment ==
    /\ pc = "sentenceLoop"
    /\ sentenceIndex = Len(sentences)
    /\ LET ended == [segmentEntry EXCEPT !.endTime = timeOffset]
           segmentAudio == SegmentAudioOf(sentencesAudio)
           segmentTimelineWithoutOffset ==
               SegmentTimelineWithoutOffset(ended.timeline, segmentStartTime)
       IN  /\ segmentEntry' = ended
           /\ segmentsAudio' = Append(segmentsAudio, segmentAudio)
           /\ timeline' = Append(timeline, ended)
           /\ segmentsTimelines' = Append(segmentsTimelines, segmentTimelineWithoutOffset)
    /\ IF callbacks.onSegment
       THEN /\ events' = Append(events,
                                 [Event("onSegment", segmentIndex, -1, Len(sentences),
                                        peakDecibelsSoFar)
                                    EXCEPT !.timeline =
                                        SegmentTimelineWithoutOffset(segmentEntry.timeline,
                                                                     segmentStartTime)])
            /\ pc' = "onSegment"
            /\ UNCHANGED segmentIndex
       ELSE /\ events' = events
            /\ pc' = "segmentLoop"
            /\ segmentIndex' = segmentIndex + 1
    /\ UNCHANGED <<otherVars, inputVars, options, error, result, sentences, segmentStartTime,
                   sentenceIndex, sentencesAudio, sentencesTimelines, peakDecibelsSoFar,
                   timeOffset, synthesis, cancelRequested, voiceListCache>>

\* The onSegment callback has returned.
OnSegmentReturn ==
    /\ pc = "onSegment"
    /\ events' = Append(events, Event("onSegmentReturned", segmentIndex, -1,
                                      Len(sentences), peakDecibelsSoFar))
    /\ segmentIndex' = segmentIndex + 1
    /\ pc' = "segmentLoop"
    /\ UNCHANGED <<otherVars, inputVars, options, error, result, sentences, segmentStartTime,
                   segmentsAudio, segmentsTimelines, timeline, sentenceVars, synthesis,
                   cancelRequested, voiceListCache>>

\* A mutant of ResultAudioOf: without segments, the empty audio is made at
\* the sample rate of the backend.
ResultAudioEmptyAtBackendRate(parts, callOptions) ==
    IF Len(parts) > 0
    THEN IF callOptions.postProcessing.normalizeAudio
         THEN NormalizeAudioLevel(SegmentAudioOf(parts), callOptions.postProcessing.targetPeakDb,
                                  callOptions.postProcessing.maxIncreaseDb)
         ELSE SegmentAudioOf(parts)
    ELSE GetEmptyRawAudio(1, BackendSampleRate)

\* the audio of the result
ResultAudioOf(parts, callOptions) ==
    IF Len(parts) > 0
    THEN IF callOptions.postProcessing.normalizeAudio
         THEN NormalizeAudioLevel(SegmentAudioOf(parts), callOptions.postProcessing.targetPeakDb,
                                  callOptions.postProcessing.maxIncreaseDb)
         ELSE SegmentAudioOf(parts)
    ELSE GetEmptyRawAudio(1, EmptyAudioSampleRate)

\* The loop over the segments is over: the result is put together and returned.
ReturnResult ==
    /\ pc = "segmentLoop"
    /\ segmentIndex = Len(segments)
    /\ result' = Some([synthesizedAudio |-> ResultAudioOf(segmentsAudio, options),
                       timeline |-> timeline,
                       segmentsAudio |-> segmentsAudio,
                       segmentsTimelines |-> segmentsTimelines])
    /\ pc' = "done"
    /\ UNCHANGED <<otherVars, inputVars, options, error, segmentVars, sentenceVars, synthesis,
                   cancelRequested, voiceListCache, events>>

(***************************************************************************)
(* The environment: cancellation is requested.                             *)
(***************************************************************************)
RequestCancel ==
    /\ pc \notin {"done", "failed"}
    /\ ~cancelRequested
    /\ cancelRequested' = TRUE
    /\ UNCHANGED <<otherVars, inputVars, options, pc, error, result, segmentVars, sentenceVars,
                   synthesis, voiceListCache, events>>

(***************************************************************************)
(* Several calls of synthesizeSegments in one process: the calls take      *)
(* turns at their awaits, and shouldCancelCurrentTask is the one predicate *)
(* of the process.                                                         *)
(***************************************************************************)
\* synthesizeSegments is called
CallStart(c) ==
    /\ calls[c].pc = "none"
    /\ \E sentenceCounts \in SentenceCounts :
          calls' = [calls EXCEPT ![c] =
                       [NoCall EXCEPT !.pc = "segmentLoop", !.sentenceCounts = sentenceCounts]]
    /\ UNCHANGED <<voiceVars, cacheVars, clientVars, inputVars, options, pc, error, result,
                   segmentVars, sentenceVars, synthesis, cancelRequested, voiceListCache,
                   events, prosody, ascii>>

\* the loop over the segments: the next segment, or the return of the result
CallNextSegment(c) ==
    /\ calls[c].pc = "segmentLoop"
    /\ calls' = [calls EXCEPT ![c] =
                    IF @.segmentIndex < Len(@.sentenceCounts)
                    THEN [@ EXCEPT !.pc = "sentenceLoop", !.sentenceIndex = 0]
                    ELSE [@ EXCEPT !.pc = "done"]]
    /\ UNCHANGED <<voiceVars, cacheVars, clientVars, inputVars, options, pc, error, result,
                   segmentVars, sentenceVars, synthesis, cancelRequested, voiceListCache,
                   events, prosody, ascii>>

\* A mutant of CallCheckpoint: the predicate is seen by the first call only.
CallCheckpointOfFirstCall(c) ==
    /\ calls[c].pc = "sentenceLoop"
    /\ calls[c].sentenceIndex < calls[c].sentenceCounts[calls[c].segmentIndex + 1]
    /\ calls' = [calls EXCEPT ![c] =
                    IF ShouldCancelCurrentTask /\ c = 1
                    THEN [@ EXCEPT !.pc = "failed", !.error = "Canceled"]
                    ELSE [@ EXCEPT !.pc = "backend"]]
    /\ UNCHANGED <<voiceVars, cacheVars, clientVars, inputVars, options, pc, error, result,
                   segmentVars, sentenceVars, synthesis, cancelRequested, voiceListCache,
                   events, prosody, ascii>>

\* the checkpoint before a sentence: the call fails, or synthesizes the sentence
CallCheckpoint(c) ==
    /\ calls[c].pc = "sentenceLoop"
    /\ calls[c].sentenceIndex < calls[c].sentenceCounts[calls[c].segmentIndex + 1]
    /\ calls' = [calls EXCEPT ![c] =
                    IF ShouldCancelCurrentTask
                    THEN [@ EXCEPT !.pc = "failed", !.error = "Canceled"]
                    ELSE [@ EXCEPT !.pc = "backend"]]
    /\ UNCHANGED <<voiceVars, cacheVars, clientVars, inputVars, options, pc, error, result,
                   segmentVars, sentenceVars, synthesis, cancelRequested, voiceListCache,
                   events, prosody, ascii>>

\* the sentence is synthesized and its bookkeeping done
CallEndSentence(c) ==
    /\ calls[c].pc = "backend"
    /\ calls' = [calls EXCEPT ![c] =
                    [@ EXCEPT !.pc = "sentenceLoop", !.sentenceIndex = @ + 1]]
    /\ UNCHANGED <<voiceVars, cacheVars, clientVars, inputVars, options, pc, error, result,
                   segmentVars, sentenceVars, synthesis, cancelRequested, voiceListCache,
                   events, prosody, ascii>>

\* the sentences of the segment are done
CallEndSegment(c) ==
    /\ calls[c].pc = "sentenceLoop"
    /\ calls[c].sentenceIndex = calls[c].sentenceCounts[calls[c].segmentIndex + 1]
    /\ calls' = [calls EXCEPT ![c] =
                    [@ EXCEPT !.pc = "segmentLoop", !.segmentIndex = @ + 1]]
    /\ UNCHANGED <<voiceVars, cacheVars, clientVars, inputVars, options, pc, error, result,
                   segmentVars, sentenceVars, synthesis, cancelRequested, voiceListCache,
                   events, prosody, ascii>>

Next ==
    \/ ResolveOptions
    \/ BeginSegment
    \/ CancelAtCheckpoint
    \/ StartSentence
    \/ BackendReturn
    \/ AlignReturn
    \/ FinishSentence
    \/ OnSentenceReturn
    \/ EndSegment
    \/ OnSegmentReturn
    \/ ReturnResult
    \/ RequestCancel

Spec == Init /\ [][Next]_vars

(***************************************************************************)
(* The pipeline on segments that hold no sentence: empty texts and texts   *)
(* of whitespace.                                                          *)
(***************************************************************************)
BlankSegmentTexts == { <<>>, <<" ", " ">> }

InitBlank ==
    /\ InitCache
    /\ InitClient
    /\ InitCalls
    /\ prosody = NoProsody
    /\ ascii = NoAscii
    /\ \E call \in Calls, texts \in SeqsUpTo(BlankSegmentTexts, MaxSegments) :
          /\ segments = texts
          /\ options = ExtendDeep(defaultSynthesisOptions, call.options)
          /\ callbacks = call.callbacks
          /\ backendProfile = call.backendProfile
    /\ pc = "start"
    /\ InitLocals
    /\ voiceQuery = NoVoiceQuery
    /\ voiceAnswer = Undefined

SpecBlank == InitBlank /\ [][Next]_vars


(***************************************************************************)
(* requestVoiceList on voice lists of its own: the voice list obtained     *)
(* (from the cache file or from the engine) and the options of the request.*)
(***************************************************************************)
MaxVoices == 3

VoicePool ==
    { Voice(<<"a">>, <<EnUS, En>>, "female", <<>>),
      Voice(<<"b">>, <<EnGB, En>>, "male", <<>>),
      Voice(<<"a", "-", "b">>, <<EnUS>>, "unknown", <<>>),
      Voice(<<"B">>, <<FrFR, Fr>>, "male", <<>>),
      \* a google-translate voice of a language code without a dialect
      Voice(<<"A">>, <<En>>, "unknown", <<>>) }

\* the lists of up to n different voices of the pool
RECURSIVE VoiceListsUpTo(_)
VoiceListsUpTo(n) ==
    IF n = 0 THEN { <<>> }
    ELSE LET shorter == VoiceListsUpTo(n - 1)
         IN  shorter \cup
             { Append(list, voice) :
                 list \in { l \in shorter : Len(l) = n - 1 },
                 voice \in VoicePool }

VoiceLists ==
    { list \in VoiceListsUpTo(MaxVoices) :
        \A i, k \in DOMAIN list : i # k => list[i] # list[k] }

RequestedLanguages ==
    { NoLanguage, LanguageCode("EN", "gb"), EnUS, En, LanguageCode("fr", "CA"), De }

VoiceQueries ==
    { [allVoices |-> list,
       options |-> [defaultSynthesisOptions EXCEPT
                        !.language = l, !.voiceGender = g, !.voice = v]] :
        list \in VoiceLists,
        l \in RequestedLanguages,
        g \in {None, "Male", "female"},
        v \in { <<>>, <<"a">>, <<"B">>, <<"A", "-", "b">> } }

InitVoice ==
    /\ InitCache
    /\ InitClient
    /\ InitCalls
    /\ prosody = NoProsody
    /\ ascii = NoAscii
    /\ voiceQuery \in VoiceQueries
    /\ voiceAnswer = Undefined
    /\ segments = <<>>
    /\ options = voiceQuery.options
    /\ callbacks = [onSegment |-> FALSE, onSentence |-> FALSE]
    /\ backendProfile = [leadingSilence |-> 0, trailingSilence |-> 0, style |-> "tight"]
    /\ pc = "requestVoiceList"
    /\ InitLocals

\* requestVoiceList returns, the voice list obtained
AnswerVoiceQuery ==
    /\ pc = "requestVoiceList"
    /\ voiceAnswer = Undefined
    /\ voiceAnswer' = Some(SelectFromVoiceList(voiceQuery.allVoices, voiceQuery.options))
    /\ pc' = "done"
    /\ UNCHANGED <<voiceQuery, cacheVars, clientVars, calls, prosody, ascii, inputVars, options, error, result, segmentVars,
                   sentenceVars, synthesis, cancelRequested, voiceListCache, events>>

\* synthesizeSegments announces the voice found: options.voice is its name,
\* options.language its first language when no language was given.  A call
\* with neither a language nor a voice has had its language detected.
AnnounceVoice ==
    /\ pc = "done"
    /\ voiceQuery.options.language # NoLanguage \/ voiceQuery.options.voice # <<>>
    /\ voiceAnswer # Undefined
    /\ voiceAnswer[1].bestMatchingVoice # Undefined
    /\ options' = [voiceQuery.options EXCEPT
                      !.voice = voiceAnswer[1].bestMatchingVoice[1].name,
                      !.language = IF @ = NoLanguage
                                   THEN voiceAnswer[1].bestMatchingVoice[1].languages[1]
                                   ELSE @]
    /\ pc' = "announced"
    /\ UNCHANGED <<voiceQuery, voiceAnswer, cacheVars, clientVars, calls, prosody, ascii, inputVars, error,
                   result, segmentVars, sentenceVars, synthesis, cancelRequested,
                   voiceListCache, events>>

\* synthesizeSegment of a sentence asks requestVoiceList again, with the
\* options synthesizeSegments resolved
ReselectVoice ==
    /\ pc = "announced"
    /\ LET answer == SelectFromVoiceList(voiceQuery.allVoices, options)
       IN  IF answer.bestMatchingVoice = Undefined
           THEN /\ Throw("No matching voice found")
                /\ UNCHANGED synthesis
           ELSE /\ synthesis' = [NoSynthesis EXCEPT
                                    !.options = options,
                                    !.selectedVoice = answer.bestMatchingVoice]
                /\ pc' = "reselected"
                /\ UNCHANGED <<error, result>>
    /\ UNCHANGED <<voiceQuery, voiceAnswer, cacheVars, clientVars, calls, prosody, ascii, inputVars,
                   options, segmentVars, sentenceVars, cancelRequested, voiceListCache, events>>

NextVoice ==
    \/ AnswerVoiceQuery
    \/ AnnounceVoice
    \/ ReselectVoice

SpecVoice == InitVoice /\ [][NextVoice]_vars

(***************************************************************************)
(* The requests of voice lists against the cache files: each request is a  *)
(* call of requestVoiceList, which may be suspended at each await while    *)
(* another one runs and while time passes.                                 *)
(***************************************************************************)
pipelineVars == <<inputVars, options, pc, error, result, segmentVars, sentenceVars,
                  synthesis, cancelRequested, voiceListCache, events, calls, prosody, ascii>>

\* no call of the pipeline is under way
PipelineIdle ==
    /\ segments = <<>>
    /\ options = defaultSynthesisOptions
    /\ callbacks = [onSegment |-> FALSE, onSentence |-> FALSE]
    /\ backendProfile = [leadingSilence |-> 0, trailingSilence |-> 0, style |-> "tight"]
    /\ pc = "idle"
    /\ InitLocals
    /\ voiceQuery = NoVoiceQuery
    /\ voiceAnswer = Undefined

InitCacheRequests ==
    /\ PipelineIdle
    /\ InitCache
    /\ InitClient
    /\ InitCalls
    /\ prosody = NoProsody
    /\ ascii = NoAscii

(***************************************************************************)
(* synthesizeSegment for the engines that take the speed and the pitch as  *)
(* SSML values: the clipping, then the strings.                            *)
(***************************************************************************)
Scales ==
    { <<1, 20>>, <<1, 10>>, <<1, 3>>, <<1, 2>>, <<2, 3>>, <<3, 4>>, <<99, 100>>, <<1, 1>>,
      <<101, 100>>, <<5, 4>>, <<3, 2>>, <<2, 1>>, <<7, 2>>, <<10, 1>>, <<20, 1>> }

InitProsody ==
    /\ PipelineIdle
    /\ InitCache
    /\ InitClient
    /\ calls = [c \in CallIds |-> NoCall]
    /\ \E engine \in {"microsoft-azure", "microsoft-edge"}, speed \in Scales,
          pitch \in Scales, voiceGender \in {"male", "female", "unknown"},
          pitchDeltaHz \in {Undefined, Some(0), Some(12), Some(-7)} :
          prosody = [NoProsody EXCEPT !.pc = "clip", !.engine = engine, !.speed = speed,
                                      !.pitch = pitch, !.voiceGender = voiceGender,
                                      !.pitchDeltaHz = pitchDeltaHz]
    /\ ascii = NoAscii

\* const speed = clip(options.speed, 0.1, 10.0), and the same for the pitch
ClipScales ==
    /\ prosody.pc = "clip"
    /\ prosody' = [prosody EXCEPT !.pc = "convert",
                                  !.speed = Clip(@, MinScale, MaxScale),
                                  !.pitch = Clip(@, MinScale, MaxScale)]
    /\ UNCHANGED <<voiceVars, cacheVars, clientVars, inputVars, options, pc, error, result,
                   segmentVars, sentenceVars, synthesis, cancelRequested, voiceListCache,
                   events, calls, ascii>>

\* ssmlPitch and ssmlRate, as the case of the engine hands them to synthesize
ConvertScales ==
    /\ prosody.pc = "convert"
    /\ prosody' = [prosody EXCEPT
                      !.pc = "synthesize",
                      !.ssmlPitch = SsmlPitchOf(prosody.pitchDeltaHz, prosody.pitch,
                                                prosody.voiceGender),
                      !.ssmlRate = ConvertSpeedScaleToSSMLValueString(prosody.speed)]
    /\ UNCHANGED <<voiceVars, cacheVars, clientVars, inputVars, options, pc, error, result,
                   segmentVars, sentenceVars, synthesis, cancelRequested, voiceListCache,
                   events, calls, ascii>>

NextProsody ==
    \/ ClipScales
    \/ ConvertScales

SpecProsody == InitProsody /\ [][NextProsody]_vars

(***************************************************************************)
(* encodeAscii and decodeAscii.  A string is the sequence of its UTF-16    *)
(* code units (charCodeAt), a Uint8Array the sequence of its bytes.        *)
(***************************************************************************)
MaxStringLength == 3
MaxSmallChunkSize == 2

\* const maxChunkSize = 2 ** 24
maxChunkSize == 16777216

\* the code units of the strings: NUL, a letter, DEL, the first code that is
\* not ASCII, a Latin-1 letter, the euro sign
CharCodes == {0, 97, 127, 128, 233, 8364}

Strings == SeqsUpTo(CharCodes, MaxStringLength)

\* the chunk sizes of decodeAscii: the one of the code, and small ones that
\* cut the buffers of the model into several chunks
ChunkSizes == (1 .. MaxSmallChunkSize) \cup {maxChunkSize}

\* buffer[i] = value, of a Uint8Array
ToUint8(value) == value % 256

\* the loop of encodeAscii from the character at i on (i counts from 1)
RECURSIVE EncodeAsciiFrom(_, _, _)
EncodeAsciiFrom(asciiString, i, buffer) ==
    IF i > Len(asciiString)
    THEN [threw |-> None, at |-> 0, buffer |-> Some(buffer)]
    ELSE LET charCode == asciiString[i]
         IN  IF charCode >= 128
             THEN [threw |-> "can't be encoded as a standard ASCII character", at |-> i,
                   buffer |-> Undefined]
             ELSE EncodeAsciiFrom(asciiString, i + 1,
                                  [buffer EXCEPT ![i] = ToUint8(charCode)])

\* encodeAscii(asciiString): what it throws, or the buffer it returns
EncodeAscii(asciiString) ==
    EncodeAsciiFrom(asciiString, 1, [i \in 1 .. Len(asciiString) |-> 0])

\* new TextDecoder('windows-1252'), of one byte: the bytes below 128 and from
\* 160 on are their own code, the bytes between have the codes of a table
Windows1252(byte) ==
    CASE byte = 128 -> 8364
      [] byte = 130 -> 8218
      [] byte = 131 -> 402
      [] byte = 159 -> 376
      [] OTHER -> byte

\* textDecoder.decode(chunk), without the stream option
TextDecode(chunk) == [i \in 1 .. Len(chunk) |-> Windows1252(chunk[i])]

\* buffer.subarray(begin, end): begin counts from 0, end is clamped
Subarray(buffer, begin, end) == SubSeq(buffer, begin + 1, Min(end, Len(buffer)))

\* A mutant of WriteChunk: the chunk replaces the string.
WriteChunkAlone(str, chunk) == TextDecode(chunk)

\* ChunkedAsciiDecoder.writeChunk(chunk): this.str += decodedChunk
WriteChunk(str, chunk) == str \o TextDecode(chunk)

\* the loop of decodeAscii from offset on, str the string of the decoder
RECURSIVE DecodeChunksFrom(_, _, _, _)
DecodeChunksFrom(buffer, offset, chunkSize, str) ==
    IF offset < Len(buffer)
    THEN DecodeChunksFrom(buffer, offset + chunkSize, chunkSize,
                          WriteChunk(str, Subarray(buffer, offset, offset + chunkSize)))
    ELSE str

\* decodeAscii(buffer), its maxChunkSize being chunkSize
DecodeAsciiInChunksOf(buffer, chunkSize) == DecodeChunksFrom(buffer, 0, chunkSize, <<>>)

\* decodeAscii(buffer)
DecodeAscii(buffer) == DecodeAsciiInChunksOf(buffer, maxChunkSize)

InitAscii ==
    /\ PipelineIdle
    /\ InitCache
    /\ InitClient
    /\ InitCalls
    /\ prosody = NoProsody
    /\ \E input \in Strings, chunkSize \in ChunkSizes :
          ascii = [NoAscii EXCEPT !.pc = "start", !.input = input, !.chunkSize = chunkSize]

\* encodeAscii is called with the string
CallEncodeAscii ==
    /\ ascii.pc = "start"
    /\ LET encoded == EncodeAscii(ascii.input)
       IN  ascii' = [ascii EXCEPT
                        !.pc = IF encoded.threw # None THEN "threw" ELSE "encoded",
                        !.source = "encodeAscii",
                        !.threw = encoded.threw,
                        !.at = encoded.at,
                        !.buffer = encoded.buffer]
    /\ UNCHANGED <<voiceVars, cacheVars, clientVars, inputVars, options, pc, error, result,
                   segmentVars, sentenceVars, synthesis, cancelRequested, voiceListCache,
                   events, calls, prosody>>

\* the codes are the bytes of a buffer that comes from elsewhere
TakeBytes ==
    /\ ascii.pc = "start"
    /\ \A i \in DOMAIN ascii.input : ascii.input[i] < 256
    /\ ascii' = [ascii EXCEPT !.pc = "bytes", !.source = "bytes",
                              !.buffer = Some(ascii.input)]
    /\ UNCHANGED <<voiceVars, cacheVars, clientVars, inputVars, options, pc, error, result,
                   segmentVars, sentenceVars, synthesis, cancelRequested, voiceListCache,
                   events, calls, prosody>>

\* decodeAscii is called with the buffer
CallDecodeAscii ==
    /\ ascii.pc \in {"encoded", "bytes"}
    /\ ascii' = [ascii EXCEPT
                    !.pc = "decoded",
                    !.decoded = Some(IF ascii.chunkSize = maxChunkSize
                                     THEN DecodeAscii(ascii.buffer[1])
                                     ELSE DecodeAsciiInChunksOf(ascii.buffer[1],
                                                                ascii.chunkSize))]
    /\ UNCHANGED <<voiceVars, cacheVars, clientVars, inputVars, options, pc, error, result,
                   segmentVars, sentenceVars, synthesis, cancelRequested, voiceListCache,
                   events, calls, prosody>>

NextAscii ==
    \/ CallEncodeAscii
    \/ TakeBytes
    \/ CallDecodeAscii

SpecAscii == InitAscii /\ [][NextAscii]_vars

\* several calls of synthesizeSegments are about to run in the process
InitConcurrent ==
    /\ PipelineIdle
    /\ InitCache
    /\ InitClient
    /\ InitCalls
    /\ prosody = NoProsody
    /\ ascii = NoAscii

NextConcurrent ==
    \/ \E c \in CallIds : CallStart(c)
    \/ \E c \in CallIds : CallNextSegment(c)
    \/ \E c \in CallIds : CallCheckpoint(c)
    \/ \E c \in CallIds : CallEndSentence(c)
    \/ \E c \in CallIds : CallEndSegment(c)
    \/ RequestCancel

SpecConcurrent == InitConcurrent /\ [][NextConcurrent]_vars

\* requestVoiceList is called and looks for an up-to-date cache file
BeginRequest(r) ==
    /\ requests[r].state = "none"
    /\ \E engine \in CacheEngines, cacheDir \in CacheDirs, duration \in CacheDurations :
          LET cacheFilePath == CacheFilePath(cacheDir, engine)
          IN  requests' = [requests EXCEPT ![r] =
                  [state |-> IF CacheIsFresh(fileSystem, cacheFilePath, now, duration)
                             THEN "reading" ELSE "loading",
                   engine |-> engine, cacheDir |-> cacheDir, duration |-> duration,
                   voiceList |-> <<>>]]
    /\ UNCHANGED <<now, fileSystem, listingCalls, voiceVars, clientVars, pipelineVars>>

\* voiceList = await readAndParseJsonFile(cacheFilePath)
ReadCacheFile(r) ==
    /\ requests[r].state = "reading"
    /\ LET cacheFilePath == CacheFilePath(requests[r].cacheDir, requests[r].engine)
       IN  requests' = [requests EXCEPT ![r] =
               [@ EXCEPT !.state = "returned",
                         !.voiceList = ReadAndParseJsonFile(fileSystem[cacheFilePath][1].content)]]
    /\ UNCHANGED <<now, fileSystem, listingCalls, voiceVars, clientVars, pipelineVars>>

\* loadVoiceList: the engine lists its voices
ListVoices(r) ==
    /\ requests[r].state = "loading"
    /\ \E answer \in ListingAnswers(requests[r].engine) :
          requests' = [requests EXCEPT ![r] = [@ EXCEPT !.state = "writing", !.voiceList = answer]]
    /\ listingCalls' = Append(listingCalls, [request |-> r, time |-> now])
    /\ UNCHANGED <<now, fileSystem, voiceVars, clientVars, pipelineVars>>

\* loadVoiceList: await writeFileSafe(cacheFilePath, stringifyAndFormatJson(voiceList))
WriteCacheFile(r) ==
    /\ requests[r].state = "writing"
    /\ LET cacheFilePath == CacheFilePath(requests[r].cacheDir, requests[r].engine)
       IN  fileSystem' = [fileSystem EXCEPT ![cacheFilePath] =
               Some([modified |-> now,
                     content |-> StringifyAndFormatJson(requests[r].voiceList)])]
    /\ requests' = [requests EXCEPT ![r] = [@ EXCEPT !.state = "returned"]]
    /\ UNCHANGED <<now, listingCalls, voiceVars, clientVars, pipelineVars>>

\* a second passes
Tick ==
    /\ now < MaxTime
    /\ now' = now + 1
    /\ UNCHANGED <<fileSystem, requests, listingCalls, voiceVars, clientVars, pipelineVars>>

NextCache ==
    \/ \E r \in Requests : BeginRequest(r)
    \/ \E r \in Requests : ReadCacheFile(r)
    \/ \E r \in Requests : ListVoices(r)
    \/ \E r \in Requests : WriteCacheFile(r)
    \/ Tick

SpecCache == InitCacheRequests /\ [][NextCache]_vars

(***************************************************************************)
(* One call of synthesizeSegment, for each engine and for the settings of  *)
(* the engine that its case looks at, up to the call of the engine's       *)
(* synthesize.                                                             *)
(***************************************************************************)
\* what a call may give for a string setting: nothing, "" or a value
GivenStrings == {Undefined, Some(""), Some("key")}

\* the settings of the engine a call may give
EngineSettings(engine) ==
    CASE engine = "vits" ->
            { [NoOptions EXCEPT !.vits.speakerId = speakerId] :
                speakerId \in {Undefined, Some(Some(-1)), Some(Some(0)), Some(Some(1)),
                               Some(Some(2))} }
      [] engine = "coqui-server" ->
            { [NoOptions EXCEPT !.coquiServer.serverUrl = serverUrl] :
                serverUrl \in GivenStrings }
      [] engine = "google-cloud" ->
            { [NoOptions EXCEPT !.googleCloud.apiKey = apiKey] : apiKey \in GivenStrings }
      [] engine = "microsoft-azure" ->
            { [NoOptions EXCEPT !.microsoftAzure.subscriptionKey = subscriptionKey,
                                !.microsoftAzure.serviceRegion = serviceRegion] :
                subscriptionKey \in GivenStrings, serviceRegion \in GivenStrings }
      [] engine = "amazon-polly" ->
            { [NoOptions EXCEPT !.awsPolly.region = region,
                                !.awsPolly.accessKeyId = accessKeyId,
                                !.awsPolly.secretAccessKey = secretAccessKey] :
                region \in GivenStrings, accessKeyId \in GivenStrings,
                secretAccessKey \in GivenStrings }
      [] engine = "elevenlabs" ->
            { [NoOptions EXCEPT !.elevenlabs.apiKey = apiKey] : apiKey \in GivenStrings }
      [] engine = "microsoft-edge" ->
            { [NoOptions EXCEPT !.microsoftEdge.trustedClientToken = trustedClientToken] :
                trustedClientToken \in GivenStrings \cup {Some("trusted")} }
      [] OTHER -> { NoOptions }

\* the options of the calls: an engine, of those the dispatch knows and one it
\* does not, its settings, and a plain or an SSML input
DispatchOptions ==
    UNION { { [settings EXCEPT !.engine = Some(engine), !.ssml = Some(isSSML)] :
                settings \in EngineSettings(engine), isSSML \in BOOLEAN } :
            engine \in AllEngines \cup {"other"} }

\* the voice lists of the engine of the call: a voice without a speaker count,
\* or a voice of two speakers
DispatchVoiceLists ==
    { << [Voice(<<"a">>, <<EnUS, En>>, "female", <<>>) EXCEPT !.speakerCount = speakerCount] >> :
        speakerCount \in {0, 2} }

InitDispatch ==
    /\ InitCache
    /\ InitClient
    /\ InitCalls
    /\ prosody = NoProsody
    /\ ascii = NoAscii
    /\ \E allVoices \in DispatchVoiceLists, callOptions \in DispatchOptions :
          /\ voiceQuery = [allVoices |-> allVoices,
                           options |-> ExtendDeep(defaultSynthesisOptions, callOptions)]
          /\ options = voiceQuery.options
    /\ voiceAnswer = Undefined
    /\ segments = << <<"a">> >>
    /\ callbacks = [onSegment |-> FALSE, onSentence |-> FALSE]
    /\ backendProfile = [leadingSilence |-> 0, trailingSilence |-> 0, style |-> "tight"]
    /\ pc = "synthesizeSegment"
    /\ error = None
    /\ result = Undefined
    /\ segmentIndex = 0
    /\ sentenceIndex = 0
    /\ sentences = <<>>
    /\ segmentStartTime = 0
    /\ segmentEntry = Entry("segment", <<>>, 0, -1, <<>>)
    /\ sentencesAudio = <<>>
    /\ sentencesTimelines = <<>>
    /\ segmentsAudio = <<>>
    /\ segmentsTimelines = <<>>
    /\ timeline = <<>>
    /\ peakDecibelsSoFar = MinPeakDecibels
    /\ timeOffset = 0
    /\ synthesis = NoSynthesis
    /\ cancelRequested = FALSE
    /\ voiceListCache \in {{}, {options.engine}}
    /\ events = <<>>

\* synthesizeSegment asks for the voice list of the engine: the list is read
\* from an up-to-date cache file, or the engine lists its voices, after the
\* checks of loadVoiceList
SegmentRequestVoiceList ==
    /\ pc = "synthesizeSegment"
    /\ LET load == options.engine \notin voiceListCache
       IN  IF load /\ LoadVoiceListError(options) # None
           THEN /\ Throw(LoadVoiceListError(options))
                /\ UNCHANGED <<voiceAnswer, voiceListCache, events>>
           ELSE LET answer == SelectFromVoiceList(voiceQuery.allVoices, options)
                IN  /\ voiceAnswer' = Some(answer)
                    /\ voiceListCache' = voiceListCache \cup {options.engine}
                    /\ events' = IF load
                                 THEN Append(events, Event("listVoices", 0, 0, 1,
                                                           peakDecibelsSoFar))
                                 ELSE events
                    /\ IF answer.bestMatchingVoice = Undefined
                       THEN Throw("No matching voice found")
                       ELSE pc' = "dispatch" /\ UNCHANGED <<error, result>>
    /\ UNCHANGED <<voiceQuery, cacheVars, clientVars, calls, prosody, ascii, inputVars, options, segmentVars, sentenceVars,
                   synthesis, cancelRequested>>

\* the case of the engine: it throws, or calls the engine's synthesize
SegmentDispatch ==
    /\ pc = "dispatch"
    /\ LET selectedVoice == voiceAnswer[1].bestMatchingVoice[1]
       IN  IF EngineConfigurationError(options, selectedVoice) # None
           THEN /\ Throw(EngineConfigurationError(options, selectedVoice))
                /\ UNCHANGED events
           ELSE /\ events' = Append(events, Event("synthesize", 0, 0, 1, peakDecibelsSoFar))
                /\ pc' = "backend"
                /\ UNCHANGED <<error, result>>
    /\ UNCHANGED <<otherVars, inputVars, options, segmentVars, sentenceVars, synthesis,
                   cancelRequested, voiceListCache>>

NextDispatch == SegmentRequestVoiceList \/ SegmentDispatch

SpecDispatch == InitDispatch /\ [][NextDispatch]_vars

(***************************************************************************)
(* The Client: calls of its methods and frames of the WebSocket, in any    *)
(* order.                                                                  *)
(***************************************************************************)
InitClientCalls ==
    /\ PipelineIdle
    /\ InitCache
    /\ InitClient
    /\ InitCalls
    /\ prosody = NoProsody
    /\ ascii = NoAscii

\* the request ids of the calls made
IssuedIds == { clientCalls[k].requestId : k \in DOMAIN clientCalls }

\* what encodeMsgPack or ws.send throws when it throws
SendFailures == {"encodeMsgPack failed", "ws.send failed"}

\* A mutant of SendRequestOutcome: the listener is registered before the
\* request is encoded and sent.
SendRequestRegisteringFirst(listeners, requestId, call, failure) ==
    [threw |-> failure, sent |-> failure = None,
     listeners |-> RegisterListener(listeners, requestId, call)]

\* sendRequest(request, onResponse): the request is encoded and sent, then
\* the listener is registered; a throw of encodeMsgPack or of ws.send leaves
\* sendRequest before the listener is registered
SendRequestOutcome(listeners, requestId, call, failure) ==
    IF failure # None
    THEN [threw |-> failure, sent |-> FALSE, listeners |-> listeners]
    ELSE [threw |-> None, sent |-> TRUE,
          listeners |-> RegisterListener(listeners, requestId, call)]

\* A call of a method of the Client: the request gets an id of its own and
\* goes through sendRequest; what sendRequest throws rejects the promise of
\* the call.  threw and sent keep what sendRequest did.
SendRequest(method, onSegment, onSentence) ==
    /\ clientState = "running"
    /\ Len(clientCalls) < MaxCalls
    /\ \E requestId \in RequestIds \ IssuedIds, failure \in {None} \cup SendFailures :
          LET outcome == SendRequestOutcome(responseListeners, requestId,
                                            Len(clientCalls) + 1, failure)
              call == [method |-> method, requestId |-> requestId,
                       onSegment |-> onSegment, onSentence |-> onSentence,
                       requestOpenPromise |->
                           IF outcome.threw # None
                           THEN Reject(OpenPromise, outcome.threw)
                           ELSE OpenPromise,
                       invoked |-> <<>>,
                       threw |-> outcome.threw, sent |-> outcome.sent]
          IN  /\ clientCalls' = Append(clientCalls, call)
              /\ responseListeners' = outcome.listeners
    /\ UNCHANGED <<received, clientLog, clientState, voiceVars, cacheVars, pipelineVars>>

\* Client.synthesizeSegments(segments, options, onSegment, onSentence)
ClientSynthesizeSegments ==
    \E given \in BOOLEAN : SendRequest("synthesizeSegments", given, given)

\* Client.requestVoiceList(options)
ClientRequestVoiceList == SendRequest("requestVoiceList", FALSE, FALSE)

\* incomingMessage.requestId: reading the property of null throws a TypeError
ReadingRequestIdThrows(value) == value.type = "null"

\* incomingMessage.requestId, of an object or of a number
RequestIdOf(value) == IF value.type = "object" THEN value.message.requestId ELSE None

\* the handler of the WebSocket's "message" event, and onMessage
OnWebSocketMessage ==
    /\ clientState = "running"
    /\ received.count < MaxFrames
    /\ \E frame \in Frames :
          /\ received' = [count |-> received.count + 1, frame |-> frame]
          /\ IF ~frame.isBinary
             THEN /\ clientLog' = Append(clientLog,
                                         "Received an unexpected string WebSocket message")
                  /\ UNCHANGED <<responseListeners, clientCalls, clientState>>
             ELSE LET decoded == DecodeMsgPack(frame.data)
                      incomingMessage == decoded.value
                      requestId == RequestIdOf(incomingMessage)
                      listener == ListenerOf(responseListeners, requestId)
                  IN  IF decoded.threw
                      THEN /\ clientLog' = Append(clientLog, "Failed to decode incoming message")
                           /\ UNCHANGED <<responseListeners, clientCalls, clientState>>
                      ELSE IF ReadingRequestIdThrows(incomingMessage)
                      THEN /\ clientState' = "uncaught exception"
                           /\ UNCHANGED <<responseListeners, clientCalls, clientLog>>
                      ELSE IF IsFalsy(requestId)
                      THEN /\ clientLog' = Append(clientLog,
                                  "Received a WebSocket message without a request ID")
                           /\ UNCHANGED <<responseListeners, clientCalls, clientState>>
                      ELSE IF listener # 0
                      THEN /\ clientCalls' =
                                  [clientCalls EXCEPT ![listener] =
                                      OnResponse(@, incomingMessage.message)]
                           /\ UNCHANGED <<responseListeners, clientLog, clientState>>
                      ELSE UNCHANGED <<responseListeners, clientCalls, clientLog, clientState>>
    /\ UNCHANGED <<voiceVars, cacheVars, pipelineVars>>

NextClient == ClientSynthesizeSegments \/ ClientRequestVoiceList \/ OnWebSocketMessage

SpecClient == InitClientCalls /\ [][NextClient]_vars


(***************************************************************************)
(* Properties of synthesizeSegments and synthesizeSegment.                 *)
(***************************************************************************)
PositionsOf(type) == { p \in DOMAIN events : events[p].type = type }

Last(list) == list[Len(list)]

Abs(x) == IF x < 0 THEN -x ELSE x

\* every startTime and endTime of a timeline, level by level, in order
RECURSIVE TimesOf(_)
TimesOf(entries) ==
    IF entries = <<>> THEN <<>>
    ELSE <<Head(entries).startTime, Head(entries).endTime>>
             \o TimesOf(Head(entries).timeline) \o TimesOf(Tail(entries))

\* a timeline with its times blanked: the entries, their types, texts and nesting
RECURSIVE WithoutTimes(_)
WithoutTimes(entries) ==
    [i \in 1..Len(entries) |->
        [entries[i] EXCEPT !.startTime = 0, !.endTime = 0, !.timeline = WithoutTimes(@)]]

\* one timeline is the other with every time moved by the offset
ShiftedBy(after, before, offset) ==
    /\ WithoutTimes(after) = WithoutTimes(before)
    /\ \A k \in DOMAIN TimesOf(before) : TimesOf(after)[k] = TimesOf(before)[k] + offset

RECURSIVE SumOfDurations(_)
SumOfDurations(parts) ==
    IF parts = <<>> THEN 0 ELSE Duration(Head(parts)) + SumOfDurations(Tail(parts))

\* C1: when shouldCancelCurrentTask() answers true at the checkpoint before a
\* sentence, the call fails with the error 'Canceled', the backend is called
\* neither for that sentence nor for a later one, and no result, not even a
\* partial one, is returned.
C1_CancelAtCheckpointAborts ==
    /\ [](error = "Canceled" => pc = "failed" /\ result = Undefined)
    /\ [][ /\ (pc = "sentenceLoop" /\ sentenceIndex < Len(sentences)
                  /\ ShouldCancelCurrentTask)
              => (pc' = "failed" /\ error' = "Canceled" /\ result' = Undefined
                    /\ events' = events)
           /\ (error = "Canceled")
              => (pc' = "failed" /\ error' = "Canceled" /\ result' = Undefined
                    /\ events' = events) ]_vars

\* C1 happens: a segment of two sentences, the call canceled at the
\* checkpoint before the second one.
C1_Witness ==
    /\ pc = "failed" /\ error = "Canceled" /\ result = Undefined
    /\ Len(sentences) = 2 /\ sentenceIndex = 1
    /\ Cardinality(PositionsOf("synthesize")) = 1

LexLess(e1, e2) ==
    \/ e1.segment < e2.segment
    \/ e1.segment = e2.segment /\ e1.sentence < e2.sentence

\* e2 is of the sentence that comes next after the sentence of e1
Follows(e1, e2) ==
    \/ e2.segment = e1.segment /\ e2.sentence = e1.sentence + 1
    \/ e2.segment = e1.segment + 1 /\ e2.sentence = 0 /\ e1.sentence = e1.total - 1

\* an event of the type, for the sentence of events[p], after p and before q
EventBetween(type, p, q) ==
    { r \in (p + 1)..(q - 1) :
        /\ events[r].type = type
        /\ events[r].segment = events[p].segment
        /\ events[r].sentence \in {events[p].sentence, -1} }

\* C2: the sentences are synthesized one at a time and in input order; at
\* most one backend call is in flight; onSentence of a sentence is called and
\* has returned before the next sentence starts; onSegment of a segment is
\* called after every onSentence of the segment and has returned before a
\* sentence of the next segment is synthesized.
C2_SentencesInSequence ==
    LET synthesizes == PositionsOf("synthesize")
    IN  /\ Cardinality(synthesizes) - Cardinality(PositionsOf("synthesized")) =
               (IF pc = "backend" THEN 1 ELSE 0)
        /\ \A p \in synthesizes :
              (\A q \in synthesizes : p <= q)
                  => events[p].segment = 0 /\ events[p].sentence = 0
        /\ \A p, q \in synthesizes :
              (p < q /\ \A r \in synthesizes : ~(p < r /\ r < q)) =>
                  /\ Follows(events[p], events[q])
                  /\ EventBetween("synthesized", p, q) # {}
                  /\ callbacks.onSentence =>
                        \E r1 \in EventBetween("onSentence", p, q) :
                            \E r2 \in EventBetween("onSentenceReturned", p, q) : r1 < r2
                  /\ (callbacks.onSegment /\ events[q].segment # events[p].segment) =>
                        \E r1 \in EventBetween("onSegment", p, q) :
                            \E r2 \in EventBetween("onSegmentReturned", p, q) : r1 < r2
        /\ \A q \in PositionsOf("onSegment") :
              /\ \A r \in DOMAIN events :
                    (events[r].segment = events[q].segment
                        /\ events[r].type \in {"synthesize", "onSentence", "onSentenceReturned"})
                    => r < q
              /\ \A k \in 0..(events[q].total - 1) :
                    /\ \E r \in synthesizes :
                          events[r].segment = events[q].segment /\ events[r].sentence = k
                    /\ callbacks.onSentence =>
                          \E r \in PositionsOf("onSentenceReturned") :
                              events[r].segment = events[q].segment /\ events[r].sentence = k
        /\ (pc = "done" /\ Len(segments) > 0) =>
              \E p \in synthesizes :
                  /\ events[p].segment = Len(segments) - 1
                  /\ events[p].sentence = events[p].total - 1

\* C2 happens: two segments, one of them of two sentences, with both callbacks.
C2_Witness ==
    /\ pc = "done" /\ Len(segments) = 2
    /\ callbacks.onSentence /\ callbacks.onSegment
    /\ \E p \in PositionsOf("synthesize") : events[p].sentence = 1
    /\ Cardinality(PositionsOf("onSegmentReturned")) = 2

\* the children of an entry lie within it, in ascending order and without
\* overlap, and so at every level below
RECURSIVE IsNested(_)
IsNested(entry) ==
    /\ \A i \in DOMAIN entry.timeline :
          /\ entry.startTime <= entry.timeline[i].startTime
          /\ entry.timeline[i].startTime <= entry.endTime
          /\ entry.startTime <= entry.timeline[i].endTime
          /\ entry.timeline[i].endTime <= entry.endTime
          /\ IsNested(entry.timeline[i])
    /\ \A i \in 1..(Len(entry.timeline) - 1) :
          entry.timeline[i].endTime <= entry.timeline[i + 1].startTime

\* C3: in the timeline returned, the times of every child lie within its
\* parent's, and siblings are in ascending order and do not overlap,
\* whatever word timeline the backend or the aligner returned.
C3_TimelineIsNested ==
    pc = "done" =>
        /\ \A i \in DOMAIN result[1].timeline : IsNested(result[1].timeline[i])
        /\ \A i \in 1..(Len(result[1].timeline) - 1) :
              result[1].timeline[i].endTime <= result[1].timeline[i + 1].startTime

\* C4: the duration of the audio returned is the sum of the durations of
\* segmentsAudio, normalized or not, and the duration of the audio of a
\* segment is the sum of the durations of its end-trimmed sentence audios.
C4_DurationsAddUp ==
    /\ pc = "done" =>
          Duration(result[1].synthesizedAudio) = SumOfDurations(result[1].segmentsAudio)
    /\ (pc \in {"onSegment", "segmentLoop", "done"} /\ segmentsAudio # <<>>) =>
          Duration(Last(segmentsAudio)) = SumOfDurations(sentencesAudio)

\* C4 happens: two segments returned, the last one of two sentences, the
\* audio normalized.
C4_Witness ==
    /\ pc = "done" /\ Len(result[1].segmentsAudio) = 2
    /\ Len(sentencesAudio) = 2
    /\ options.postProcessing.normalizeAudio
    /\ Duration(result[1].segmentsAudio[1]) > 0
    /\ Duration(result[1].synthesizedAudio) > Duration(result[1].segmentsAudio[1])

\* each entry starts where the one before it ends
IsContiguous(entries) ==
    \A i \in 1..(Len(entries) - 1) : entries[i + 1].startTime = entries[i].endTime

\* C5: the time cursor starts at 0 and advances only by the duration of each
\* end-trimmed sentence audio; a sentence entry starts at the cursor before
\* the sentence and ends at the cursor after it, its words being the
\* timeline of the sentence moved by its start; sentence entries and segment
\* entries are contiguous, a segment spans its sentences, and the last
\* segment ends at the duration of the audio returned.
C5_TimeCursor ==
    /\ [](pc = "start" => timeOffset = 0)
    /\ [][ /\ timeOffset' # timeOffset =>
                Len(segmentEntry'.timeline) = Len(segmentEntry.timeline) + 1
           /\ (Len(segmentEntry'.timeline) = Len(segmentEntry.timeline) + 1) =>
                /\ Len(sentencesAudio') = Len(sentencesAudio) + 1
                /\ timeOffset' = timeOffset + Duration(Last(sentencesAudio'))
                /\ Last(segmentEntry'.timeline).startTime = timeOffset
                /\ Last(segmentEntry'.timeline).endTime = timeOffset'
                /\ ShiftedBy(Last(segmentEntry'.timeline).timeline,
                             synthesis'.timeline[1], timeOffset) ]_vars
    /\ [](/\ IsContiguous(timeline)
          /\ IsContiguous(segmentEntry.timeline)
          /\ timeline # <<>> => timeline[1].startTime = 0
          /\ \A i \in DOMAIN timeline :
                /\ IsContiguous(timeline[i].timeline)
                /\ timeline[i].timeline # <<>>
                /\ timeline[i].startTime = timeline[i].timeline[1].startTime
                /\ timeline[i].endTime = Last(timeline[i].timeline).endTime
          /\ (pc = "done" /\ timeline # <<>>) =>
                Last(result[1].timeline).endTime = Duration(result[1].synthesizedAudio))

\* C5 happens: two segments returned, the first one of two sentences, the
\* second sentence with a word.
C5_Witness ==
    /\ pc = "done" /\ Len(result[1].timeline) = 2
    /\ Len(result[1].timeline[1].timeline) = 2
    /\ result[1].timeline[1].timeline[2].startTime > 0
    /\ result[1].timeline[1].timeline[2].timeline # <<>>
    /\ result[1].timeline[2].endTime > result[1].timeline[2].startTime

\* the duration the leading-silence trim takes from the audio the backend returned
LeadingSilenceDuration ==
    (StartingSilentSampleCount(synthesis.backendAudio.audioChannels[1], SilenceThresholdDb)
        * TimeDen) \div synthesis.backendAudio.sampleRate

\* C6: when the backend returned a timeline and the trim of the leading
\* silence takes a duration d from the start of the audio, every startTime
\* and endTime of the timeline decreases by d; when nothing is trimmed the
\* timeline is unchanged.
C6_LeadingTrimShiftsTimeline ==
    synthesis.backendTimeline # Undefined =>
        /\ synthesis.timelineAfterTrim # Undefined
        /\ ShiftedBy(synthesis.timelineAfterTrim[1], synthesis.backendTimeline[1],
                     -LeadingSilenceDuration)
        /\ LeadingSilenceDuration = 0 =>
              synthesis.timelineAfterTrim = synthesis.backendTimeline

\* C6 happens: a backend timeline with entries, leading silence trimmed.
C6_Witness ==
    /\ synthesis.backendTimeline # Undefined
    /\ synthesis.backendTimeline[1] # <<>>
    /\ LeadingSilenceDuration > 0
    /\ synthesis.timelineAfterTrim # synthesis.backendTimeline

\* the effective time stretch factor of the synthesizeSegment call
EffectiveTimeStretchFactor == OrOne(synthesis.timeStretchFactor)

\* every time of `after` is the time of `before` multiplied by the factor,
\* to the precision of a timestamp
MultipliedBy(after, before, factor) ==
    /\ WithoutTimes(after) = WithoutTimes(before)
    /\ \A k \in DOMAIN TimesOf(before) :
          2 * Abs(TimesOf(after)[k] * factor[2] - TimesOf(before)[k] * factor[1])
              <= factor[2]

\* the sentence timeline rescaled by the factor and then by its reciprocal
RescaledThereAndBack ==
    MultiplyTimelineByFactor(
        MultiplyTimelineByFactor(synthesis.timelineBeforeShifting[1],
                                 EffectiveTimeStretchFactor),
        Reciprocal(EffectiveTimeStretchFactor))

\* what C7 says of the timeline after the DSP call
RescaledAfterShifting ==
    /\ EffectiveTimeStretchFactor # One =>
          /\ PositionsOf("stretchTimePitch") # {}
          /\ MultipliedBy(synthesis.timelineAfterShifting[1],
                          synthesis.timelineBeforeShifting[1],
                          Reciprocal(EffectiveTimeStretchFactor))
    /\ EffectiveTimeStretchFactor = One =>
          synthesis.timelineAfterShifting = synthesis.timelineBeforeShifting

\* C7 as stated: when the effective time stretch factor f is not 1, every
\* timestamp of the sentence timeline is multiplied by 1 / f after the DSP
\* call; when f is 1 the timestamps are unchanged; rescaling by f and then by
\* 1 / f restores the original timestamps.
C7_Original ==
    synthesis.timelineAfterShifting # Undefined =>
        /\ RescaledAfterShifting
        /\ RescaledThereAndBack = synthesis.timelineBeforeShifting[1]

\* C7, amended: when the effective time stretch factor f is not 1, every
\* timestamp of the sentence timeline is multiplied by 1 / f after the DSP
\* call; when f is 1 the timestamps are unchanged; rescaling by f and then by
\* 1 / f restores the original timestamps to within the rounding of the two
\* products, not exactly.
C7_RescaledByReciprocal ==
    synthesis.timelineAfterShifting # Undefined =>
        /\ RescaledAfterShifting
        /\ WithoutTimes(RescaledThereAndBack) =
               WithoutTimes(synthesis.timelineBeforeShifting[1])
        /\ \A k \in DOMAIN TimesOf(RescaledThereAndBack) :
              2 * EffectiveTimeStretchFactor[1]
                    * Abs(TimesOf(RescaledThereAndBack)[k]
                            - TimesOf(synthesis.timelineBeforeShifting[1])[k])
                  <= EffectiveTimeStretchFactor[1] + EffectiveTimeStretchFactor[2]

\* C7 happens: a timeline with times after 0 rescaled for a factor other than 1.
C7_Witness ==
    /\ synthesis.timelineAfterShifting # Undefined
    /\ EffectiveTimeStretchFactor = <<3, 2>>
    /\ synthesis.shifted
    /\ \E k \in DOMAIN TimesOf(synthesis.timelineBeforeShifting[1]) :
          /\ TimesOf(synthesis.timelineBeforeShifting[1])[k] > 0
          /\ TimesOf(synthesis.timelineAfterShifting[1])[k]
                 < TimesOf(synthesis.timelineBeforeShifting[1])[k]

\* no entry of the timeline, at any level, has a text that is not a word
RECURSIVE HasOnlyWords(_)
HasOnlyWords(entries) ==
    \A i \in DOMAIN entries :
        IsWord(entries[i].text) /\ HasOnlyWords(entries[i].timeline)

C9_ZeroSegments ==
    Len(segments) = 0 =>
        /\ PositionsOf("synthesize") = {}
        /\ pc = "done" =>
              /\ result # Undefined
              /\ Len(result[1].synthesizedAudio.audioChannels) = 1
              /\ result[1].synthesizedAudio.audioChannels[1] = <<>>
              /\ result[1].synthesizedAudio.sampleRate = 24000
              /\ result[1].timeline = <<>>
              /\ result[1].segmentsAudio = <<>>
              /\ result[1].segmentsTimelines = <<>>

\* C9 happens: a call with zero segments has returned.
C9_Witness == pc = "done" /\ Len(segments) = 0 /\ result # Undefined

\* the voices of the list whose languages contain the code
VoicesDeclaring(voiceList, code) ==
    SelectSeq(voiceList, LAMBDA voice : \E i \in DOMAIN voice.languages :
                                            voice.languages[i] = code)

\* the language code of the query, normalized
QueryLanguage == NormalizeLanguageCode(voiceQuery.options.language)

\* the voices of the query the language filter is to keep
KeptByLanguage ==
    LET exact == VoicesDeclaring(voiceQuery.allVoices, QueryLanguage)
    IN  IF QueryLanguage = NoLanguage THEN voiceQuery.allVoices
        ELSE IF exact # <<>> THEN exact
        ELSE IF QueryLanguage.region # ""
        THEN VoicesDeclaring(voiceQuery.allVoices, LanguageCode(QueryLanguage.lang, ""))
        ELSE <<>>

\* the voices of the example
ExampleVoices ==
    << Voice(<<"a">>, <<EnUS, En>>, "female", <<>>),
       Voice(<<"b">>, <<EnGB, En>>, "male", <<>>) >>

\* C10: the language filter keeps the voices whose languages contain the
\* normalized code requested; only if there is none and the code has a
\* region does it keep the voices that contain the short code; for the
\* voices [a: en-US, en; b: en-GB, en] and en-GB requested the voice selected
\* is b, and a voice matching the short code only is never selected while a
\* voice has the exact code.
C10_LanguageFilter ==
    voiceAnswer # Undefined =>
        LET expected ==
                LET byGender == IF voiceQuery.options.voiceGender # None
                                THEN FilterByGender(KeptByLanguage,
                                                    voiceQuery.options.voiceGender)
                                ELSE KeptByLanguage
                IN  IF voiceQuery.options.voice # <<>>
                    THEN FilterByName(byGender, voiceQuery.options.voice)
                    ELSE byGender
            best == voiceAnswer[1].bestMatchingVoice
        IN  /\ voiceAnswer[1].voiceList = expected
            /\ (best # Undefined
                   /\ VoicesDeclaring(voiceQuery.allVoices, QueryLanguage) # <<>>)
               => VoicesDeclaring(best, QueryLanguage) # <<>>
            /\ (voiceQuery.allVoices = ExampleVoices /\ QueryLanguage = EnGB
                   /\ voiceQuery.options.voiceGender = None
                   /\ voiceQuery.options.voice = <<>>)
               => (best # Undefined /\ best[1].name = <<"b">>)

\* C10 happens: the voices of the example, en-GB requested, b selected.
C10_Witness ==
    /\ voiceAnswer # Undefined
    /\ voiceQuery.allVoices = ExampleVoices
    /\ QueryLanguage = EnGB
    /\ voiceQuery.options.language # EnGB
    /\ voiceAnswer[1].bestMatchingVoice # Undefined
    /\ voiceAnswer[1].bestMatchingVoice[1].name = <<"b">>


\* the positions of the voices returned that declare the code
PositionsDeclaring(voiceList, code) ==
    { i \in DOMAIN voiceList : VoicesDeclaring(<<voiceList[i]>>, code) # <<>> }

\* the least number of a non-empty set of numbers
Least(S) == CHOOSE i \in S : \A k \in S : i <= k

\* C11: after the filters the first remaining voice is selected, except
\* that, when more than one voice remains and the code requested has a long
\* form that a remaining voice declares, the first remaining voice declaring
\* the long form is selected, even if another voice is listed before it.
C11_BestMatchingVoice ==
    voiceAnswer # Undefined =>
        LET remaining == voiceAnswer[1].voiceList
            best == voiceAnswer[1].bestMatchingVoice
            longForm == ShortLanguageCodeToLong(QueryLanguage)
            declaring == PositionsDeclaring(remaining, longForm)
        IN  /\ remaining = <<>> => best = Undefined
            /\ remaining # <<>> =>
                  /\ best # Undefined
                  /\ best[1] =
                        IF Len(remaining) > 1 /\ longForm # NoLanguage /\ declaring # {}
                        THEN remaining[Least(declaring)]
                        ELSE remaining[1]

\* C11 happens: the voice selected is not the first one remaining.
C11_Witness ==
    /\ voiceAnswer # Undefined
    /\ Len(voiceAnswer[1].voiceList) > 1
    /\ voiceAnswer[1].bestMatchingVoice[1] # voiceAnswer[1].voiceList[1]
    /\ VoicesDeclaring(voiceAnswer[1].bestMatchingVoice,
                       ShortLanguageCodeToLong(QueryLanguage)) # <<>>

\* the gender filter of the query keeps the voice
GenderKeeps(voice) ==
    \/ voiceQuery.options.voiceGender = None
    \/ voice.gender = "unknown"
    \/ voice.gender = ToLowerCase(voiceQuery.options.voiceGender)

\* the name filter of the query keeps the voice
NameKeeps(voice) ==
    \/ voiceQuery.options.voice = <<>>
    \/ FilterByName(<<voice>>, voiceQuery.options.voice) # <<>>

\* C12: the filters apply in the order language, gender, name pattern, each
\* to the output of the one before; the gender filter keeps a voice iff its
\* gender is the gender requested, whatever the case of the request, or is
\* 'unknown', so a voice of unknown gender is never removed by it.
C12_FilterOrder ==
    voiceAnswer # Undefined =>
        /\ voiceAnswer[1].voiceList =
              SelectSeq(KeptByLanguage, LAMBDA voice : GenderKeeps(voice) /\ NameKeeps(voice))
        /\ \A i \in DOMAIN KeptByLanguage :
              (KeptByLanguage[i].gender = "unknown" /\ NameKeeps(KeptByLanguage[i]))
                  => \E k \in DOMAIN voiceAnswer[1].voiceList :
                         voiceAnswer[1].voiceList[k] = KeptByLanguage[i]

\* C12 happens: 'Male' requested; a voice of unknown gender is kept, a female
\* voice that passed the language filter is removed, and the language filter
\* has removed a voice the gender filter would keep.
C12_Witness ==
    /\ voiceAnswer # Undefined
    /\ voiceQuery.options.voiceGender = "Male"
    /\ \E i \in DOMAIN voiceAnswer[1].voiceList :
          voiceAnswer[1].voiceList[i].gender = "unknown"
    /\ \E i \in DOMAIN KeptByLanguage : KeptByLanguage[i].gender = "female"
    /\ \E i \in DOMAIN voiceQuery.allVoices :
          /\ voiceQuery.allVoices[i].gender = "male"
          /\ \A k \in DOMAIN KeptByLanguage : KeptByLanguage[k] # voiceQuery.allVoices[i]


\* the voices the filters leave of the engine's list, for the options as they stand
RemainingVoices == SelectFromVoiceList(LoadVoiceList(options.engine), options).voiceList

C14_VoiceWithoutEngine ==
    /\ (pc # "start" /\ options.engine = None /\ options.voice # <<>>) =>
          /\ pc = "failed"
          /\ error = "Voice was specified but no engine was specified."
    /\ (error = "Voice was specified but no engine was specified.") =>
          /\ pc = "failed" /\ result = Undefined
          /\ options.engine = None /\ options.voice # <<>>
          /\ events = <<>>
          /\ voiceListCache = {}

\* C14 happens: a call naming a voice and no engine, and neither a language,
\* has failed.
C14_Witness ==
    /\ error = "Voice was specified but no engine was specified."
    /\ options.language = NoLanguage
    /\ Len(segments) > 0


\* the offline engines in the order of preference
OfflineEngines == <<"vits", "flite", "pico">>

\* some voice of the engine's table declares the code
EngineDeclares(engine, code) ==
    \E i \in DOMAIN EngineVoiceList(engine) : Includes(EngineVoiceList(engine)[i].languages, code)

\* the call selected its engine itself
EngineWasSelected ==
    \E p \in DOMAIN events : events[p].type = "selectBestOfflineEngineForLanguage"

\* C15: the engine selected for a language is the first of vits, flite, pico
\* of which some voice declares the normalized code, and espeak when none does.
C15_BestOfflineEngine ==
    EngineWasSelected =>
        LET code == NormalizeLanguageCode(options.language)
            declaring == { k \in DOMAIN OfflineEngines : EngineDeclares(OfflineEngines[k], code) }
        IN  /\ declaring # {} => options.engine = OfflineEngines[Least(declaring)]
            /\ declaring = {} => options.engine = "espeak"
            /\ \A k \in declaring : \A j \in DOMAIN OfflineEngines :
                  options.engine = OfflineEngines[j] => j <= k

\* C15 happens: vits is selected for a language that flite declares too.
C15_Witness ==
    /\ EngineWasSelected
    /\ options.engine = "vits"
    /\ EngineDeclares("flite", NormalizeLanguageCode(options.language))


\* the cache file a request looks at
PathOf(request) == CacheFilePath(request.cacheDir, request.engine)

\* request r calls the voice listing of its engine in this step
Lists(r) == listingCalls' = Append(listingCalls, [request |-> r, time |-> now])

\* the step of a request that looks for the cache file: it goes on to list the
\* voices exactly if there is no file or the file is not newer than the
\* time to live allows
CacheDecides(r) ==
    (requests[r].state = "none" /\ requests'[r].state # "none") =>
        LET file == fileSystem[PathOf(requests'[r])]
            stale == file = Undefined \/ now - file[1].modified >= requests'[r].duration
        IN  /\ requests'[r].state = (IF stale THEN "loading" ELSE "reading")
            /\ listingCalls' = listingCalls /\ fileSystem' = fileSystem

\* a request that found no up-to-date file calls the listing, once, and then
\* writes the list to its cache file
StaleLoadsAndWrites(r) ==
    /\ (requests[r].state = "loading" /\ requests'[r].state # "loading") =>
          /\ requests'[r].state = "writing"
          /\ Lists(r)
          /\ fileSystem' = fileSystem
    /\ (requests[r].state = "writing" /\ requests'[r].state # "writing") =>
          /\ requests'[r].state = "returned"
          /\ requests'[r].voiceList = requests[r].voiceList
          /\ listingCalls' = listingCalls
          /\ fileSystem' = [fileSystem EXCEPT ![PathOf(requests[r])] =
                 Some([modified |-> now,
                       content |-> StringifyAndFormatJson(requests[r].voiceList)])]

\* a request that found an up-to-date file returns the list of the file,
\* calls no listing and writes nothing
FreshReturnsCached(r) ==
    (requests[r].state = "reading" /\ requests'[r].state # "reading") =>
        /\ requests'[r].state = "returned"
        /\ StringifyAndFormatJson(requests'[r].voiceList) = fileSystem[PathOf(requests[r])][1].content
        /\ listingCalls' = listingCalls
        /\ fileSystem' = fileSystem

\* listings and writes are made by the requests that found no up-to-date file
OnlyStaleListsAndWrites ==
    /\ listingCalls' # listingCalls =>
          \E r \in Requests : requests[r].state = "loading" /\ Lists(r)
    /\ fileSystem' # fileSystem =>
          \E r \in Requests : requests[r].state = "writing" /\ requests'[r].state = "returned"

\* C16 as stated: of two listing calls for the same cache file, the later
\* one is not within the time to live of the earlier one.
C16_Original ==
    \A i, j \in DOMAIN listingCalls :
        (i < j /\ PathOf(requests[listingCalls[i].request])
                    = PathOf(requests[listingCalls[j].request]))
            => listingCalls[j].time - listingCalls[i].time
                  >= requests[listingCalls[j].request].duration

\* C16: a request calls the engine's voice listing exactly if, when it looks,
\* there is no cache file of its directory and engine or the file is not newer
\* than the time to live; having listed, it writes the list to that file; a
\* request that finds the file up to date returns the file's list, lists
\* nothing and writes nothing.  A request that looks before another one for
\* the same file has written lists as well.
C16_VoiceListCache ==
    [][ /\ \A r \in Requests :
              CacheDecides(r) /\ StaleLoadsAndWrites(r) /\ FreshReturnsCached(r)
        /\ OnlyStaleListsAndWrites ]_vars

\* C16 happens: of two requests for the same cache file, one has listed and
\* written and the other one has returned the list of the file, and time
\* has passed since the file was written.
C16_Witness ==
    /\ now > 0
    /\ Len(listingCalls) = 1
    /\ \A r \in Requests : requests[r].state = "returned"
    /\ \A r, q \in Requests : PathOf(requests[r]) = PathOf(requests[q])
    /\ fileSystem[PathOf(requests[1])] # Undefined
    /\ fileSystem[PathOf(requests[1])][1].modified < now


\* a setting the engine of the call requires is absent
RequiredSettingIsAbsent ==
    LET Absent(value) == value = None \/ value = ""
    IN  \/ options.engine = "coqui-server" /\ Absent(options.coquiServer.serverUrl)
        \/ options.engine = "google-cloud" /\ Absent(options.googleCloud.apiKey)
        \/ options.engine = "microsoft-azure"
              /\ (Absent(options.microsoftAzure.subscriptionKey)
                    \/ Absent(options.microsoftAzure.serviceRegion))
        \/ options.engine = "amazon-polly"
              /\ (Absent(options.awsPolly.region) \/ Absent(options.awsPolly.accessKeyId)
                    \/ Absent(options.awsPolly.secretAccessKey))
        \/ options.engine = "elevenlabs" /\ Absent(options.elevenlabs.apiKey)
        \/ options.engine = "microsoft-edge" /\ Absent(options.microsoftEdge.trustedClientToken)

\* the input is SSML and the engine is none of the four that take SSML
SsmlIsNotSupported ==
    options.ssml
        /\ options.engine \notin {"espeak", "google-cloud", "microsoft-azure", "amazon-polly"}

\* the speaker id asked of vits is not one of the speakers of the voice
SpeakerIdIsOutOfRange ==
    /\ options.engine = "vits"
    /\ options.vits.speakerId # Undefined
    /\ \A k \in DOMAIN voiceQuery.allVoices :
          LET speakerCount == voiceQuery.allVoices[k].speakerCount
          IN  IF speakerCount = 0 THEN options.vits.speakerId[1] # 0
              ELSE options.vits.speakerId[1] \notin 0 .. (speakerCount - 1)

SynthesizeWasCalled == \E p \in DOMAIN events : events[p].type = "synthesize"

\* C17: a call of synthesizeSegment that lacks a setting its engine requires,
\* or gives SSML to an engine other than espeak, google-cloud, microsoft-azure
\* and amazon-polly, or asks vits for a speaker the voice has not, fails with
\* an error, and the engine's synthesize is not called.
C17_FailsBeforeSynthesize ==
    /\ (RequiredSettingIsAbsent \/ SsmlIsNotSupported \/ SpeakerIdIsOutOfRange) =>
          /\ ~SynthesizeWasCalled
          /\ pc \in {"synthesizeSegment", "dispatch", "failed"}
          /\ pc = "failed" => error # None /\ error # "No matching voice found"
    /\ SynthesizeWasCalled => pc = "backend" /\ error = None

\* C17 happens: a call to vits for speaker 2 of a voice of two speakers has
\* failed, the voice list read from the cache file.
C17_Witness ==
    /\ pc = "failed"
    /\ options.engine = "vits" /\ ~options.ssml
    /\ options.vits.speakerId = Some(2)
    /\ voiceQuery.allVoices[1].speakerCount = 2
    /\ events = <<>>


\* a frame arrives in this step
FrameArrives == received' # received

\* the frame that arrives carries a message with the request id of call k
ArrivesFor(k) ==
    /\ FrameArrives
    /\ received'.frame.isBinary
    /\ received'.frame.data.format = "map"
    /\ received'.frame.data.body.requestId = clientCalls[k].requestId

\* the message of the frame that arrives
ArrivingMessage == received'.frame.data.body

\* the listener of call k is registered
IsRegistered(k) == responseListeners[clientCalls[k].requestId] = k

\* C18: a callback of a call is invoked and its promise is resolved only by a
\* message that carries the request id of that call; a message of one request
\* leaves every other call as it is.
C18_OwnMessagesOnly ==
    [][ \A k \in DOMAIN clientCalls :
            /\ clientCalls'[k] # clientCalls[k] => ArrivesFor(k)
            /\ ArrivesFor(k) =>
                  \A other \in DOMAIN clientCalls \ {k} : clientCalls'[other] = clientCalls[other]
      ]_vars

\* C18 happens: two requests are outstanding and their messages interleave:
\* two events of the first, the response of the second between or around them.
C18_Witness ==
    /\ Len(clientCalls) = 2
    /\ IsRegistered(1) /\ IsRegistered(2)
    /\ clientCalls[1].requestOpenPromise.state = "pending"
    /\ Len(clientCalls[1].invoked) = 2
    /\ clientCalls[2].requestOpenPromise.state = "resolved"

\* the message type that ends a call of the method
TerminalTypeOf(method) ==
    IF method = "synthesizeSegments" THEN "SynthesizeSegmentsResponse" ELSE "VoiceListResponse"

\* the callback an event message is for
CallbackOf(messageType) ==
    IF messageType = "SynthesisSegmentEvent" THEN "onSegment" ELSE "onSentence"

\* C19: the promise of a call is resolved exactly when the response of its
\* method with its request id arrives, with that response; the segment and
\* sentence events with its request id invoke onSegment and onSentence, each
\* as it arrives, and leave the promise as it is; nothing else settles the
\* promise or invokes a callback.
C19_ResponseResolves ==
    [][ \A k \in DOMAIN clientCalls :
            LET call == clientCalls[k]
                terminal == /\ ArrivesFor(k) /\ IsRegistered(k)
                            /\ ArrivingMessage.messageType = TerminalTypeOf(call.method)
                event == /\ ArrivesFor(k) /\ IsRegistered(k)
                         /\ call.method = "synthesizeSegments"
                         /\ \/ ArrivingMessage.messageType = "SynthesisSegmentEvent"
                                  /\ call.onSegment
                            \/ ArrivingMessage.messageType = "SynthesisSentenceEvent"
                                  /\ call.onSentence
            IN  /\ (terminal /\ call.requestOpenPromise.state = "pending") =>
                      clientCalls'[k].requestOpenPromise =
                          [state |-> "resolved", value |-> ArrivingMessage, reason |-> None]
                /\ clientCalls'[k].requestOpenPromise # call.requestOpenPromise =>
                      terminal /\ call.requestOpenPromise.state = "pending"
                /\ event =>
                      clientCalls'[k].invoked =
                          Append(call.invoked,
                                 <<CallbackOf(ArrivingMessage.messageType), ArrivingMessage>>)
                /\ clientCalls'[k].invoked # call.invoked => event
      ]_vars

\* C19 happens: a call of synthesizeSegments got the event of segment 1, then
\* the event of segment 0, then its response.
C19_Witness ==
    \E k \in DOMAIN clientCalls :
        /\ clientCalls[k].method = "synthesizeSegments"
        /\ clientCalls[k].requestOpenPromise.state = "resolved"
        /\ Len(clientCalls[k].invoked) = 2
        /\ clientCalls[k].invoked[1][2].index = 1
        /\ clientCalls[k].invoked[2][2].index = 0
        /\ received.frame.data.body.messageType = "SynthesizeSegmentsResponse"

\* the frame that arrives is one to drop: it is not binary, or does not
\* decode, or decodes to something without a request id, or its request id
\* has no listener
ArrivingFrameIsToDrop ==
    /\ FrameArrives
    /\ \/ ~received'.frame.isBinary
       \/ received'.frame.data.format # "map"
       \/ received'.frame.data.body.requestId \in {None, ""}
       \/ \A id \in RequestIds :
             received'.frame.data.body.requestId = id => responseListeners[id] = 0

\* C20: a frame to drop is logged, no listener is invoked and no promise is
\* settled, responseListeners stays as it is, no exception leaves the
\* handler, and the client goes on.
C20_LoggedAndDropped ==
    [][ ArrivingFrameIsToDrop =>
            /\ Len(clientLog') = Len(clientLog) + 1
            /\ clientCalls' = clientCalls
            /\ responseListeners' = responseListeners
            /\ clientState' = "running"
      ]_vars


\* the request ids that have a listener
RegisteredIds == { id \in DOMAIN responseListeners : responseListeners[id] # 0 }

\* the calls whose request was sent: ws.send did not throw
SentCalls == { k \in DOMAIN clientCalls : clientCalls[k].requestOpenPromise.state # "rejected" }

\* C21: responseListeners only grows: a listener once registered stays, so
\* there are as many listeners as requests sent; a message for a call whose
\* promise is resolved still reaches the call's listener: an event invokes
\* the callback, a second response leaves the resolved promise as it is.
C21_ListenersOnlyGrow ==
    /\ [](Cardinality(RegisteredIds) = Cardinality(SentCalls))
    /\ [][ /\ \A id \in DOMAIN responseListeners :
                responseListeners[id] # 0 => responseListeners'[id] = responseListeners[id]
           /\ \A k \in DOMAIN clientCalls :
                (ArrivesFor(k) /\ IsRegistered(k)
                    /\ clientCalls[k].requestOpenPromise.state = "resolved") =>
                    /\ clientCalls'[k].requestOpenPromise = clientCalls[k].requestOpenPromise
                    /\ (ArrivingMessage.messageType = "SynthesisSegmentEvent"
                            /\ clientCalls[k].onSegment) =>
                          clientCalls'[k].invoked =
                              Append(clientCalls[k].invoked, <<"onSegment", ArrivingMessage>>)
                    /\ (ArrivingMessage.messageType = "SynthesisSentenceEvent"
                            /\ clientCalls[k].onSentence) =>
                          clientCalls'[k].invoked =
                              Append(clientCalls[k].invoked, <<"onSentence", ArrivingMessage>>)
         ]_vars

\* C21 happens: two requests were sent; the first one got its response, then
\* the response again, then a segment event, which invoked onSegment.
C21_Witness ==
    /\ Len(clientCalls) = 2 /\ Cardinality(RegisteredIds) = 2
    /\ received.count = 3
    /\ clientCalls[1].requestOpenPromise.state = "resolved"
    /\ clientCalls[1].invoked = << <<"onSegment", received.frame.data.body>> >>
    /\ received.frame.data.body.requestId = clientCalls[1].requestId
    /\ clientCalls[2].requestOpenPromise.state = "pending"
    /\ clientCalls[2].invoked = <<>>

(***************************************************************************)
(* C22: the cancellation predicate is the one of the process, not of a     *)
(* call.  Once it is true it stays true, and every call, whichever it is,  *)
(* that takes the checkpoint before a sentence while it is true fails      *)
(* with "Canceled": no call passes a checkpoint after the predicate became *)
(* true, so one call is never canceled while another goes on past its next *)
(* checkpoint.  A call fails with "Canceled" only when the predicate is    *)
(* true.                                                                   *)
(***************************************************************************)
AtCheckpoint(c) ==
    /\ calls[c].pc = "sentenceLoop"
    /\ calls[c].sentenceIndex < calls[c].sentenceCounts[calls[c].segmentIndex + 1]

C22_CancelIsProcessWide ==
    /\ [](\A c \in CallIds : calls[c].error = "Canceled" => ShouldCancelCurrentTask)
    /\ [][ /\ ShouldCancelCurrentTask => ShouldCancelCurrentTask'
           /\ \A c \in CallIds :
                 (ShouldCancelCurrentTask /\ AtCheckpoint(c) /\ calls'[c] # calls[c]) =>
                     /\ calls'[c].pc = "failed"
                     /\ calls'[c].error = "Canceled"
                     /\ calls'[c].sentenceIndex = calls[c].sentenceIndex
                     /\ calls'[c].segmentIndex = calls[c].segmentIndex
         ]_vars

\* Two calls were under way, one in its second segment and one at its second
\* sentence, when the predicate became true; both failed at their checkpoints.
C22_Witness ==
    /\ ShouldCancelCurrentTask
    /\ calls[1].error = "Canceled" /\ calls[1].segmentIndex = 1 /\ calls[1].sentenceIndex = 1
    /\ calls[2].error = "Canceled" /\ calls[2].segmentIndex = 0 /\ calls[2].sentenceIndex = 1

(***************************************************************************)
(* C23: cancellation is seen at the checkpoint before a sentence only.  A  *)
(* sentence under way (its backend call, its alignment, its post-          *)
(* processing, its onSentence callback) is never ended by 'Canceled': with *)
(* cancellation requested, its audio is appended, the cursor is advanced   *)
(* by its duration and onSentence is called as without.  A call that fails *)
(* with 'Canceled' stands at a checkpoint, every earlier sentence of the   *)
(* segment fully processed.  After the checkpoint of the last sentence of  *)
(* the last segment the call does not fail with 'Canceled', and a call     *)
(* that returns with cancellation requested returns the complete result.   *)
(***************************************************************************)
SentenceUnderWay == pc \in {"backend", "align", "postprocess", "onSentence"}

\* the checkpoint of the last sentence of the last segment is passed
NoCheckpointAhead ==
    \/ /\ segmentIndex = Len(segments) - 1
       /\ \/ SentenceUnderWay /\ sentenceIndex = Len(sentences) - 1
          \/ pc = "sentenceLoop" /\ sentenceIndex = Len(sentences)
          \/ pc = "onSegment"
    \/ pc = "segmentLoop" /\ segmentIndex = Len(segments)

OnSentenceCalls ==
    { p \in PositionsOf("onSentence") : events[p].segment = segmentIndex }

ResultIsComplete ==
    /\ result # Undefined
    /\ Len(result[1].timeline) = Len(segments)
    /\ Len(result[1].segmentsAudio) = Len(segments)
    /\ Len(result[1].segmentsTimelines) = Len(segments)
    /\ \A s \in 1..Len(segments) :
          /\ Len(result[1].timeline[s].timeline) >= 1
          /\ Duration(result[1].segmentsAudio[s])
                = result[1].timeline[s].endTime - result[1].timeline[s].startTime
    /\ Duration(result[1].synthesizedAudio)
          = SumOfDurations(result[1].segmentsAudio)

C23_CancelOnlyAtCheckpoint ==
    /\ []( /\ error = "Canceled" =>
                /\ sentenceIndex < Len(sentences)
                /\ Len(sentencesAudio) = sentenceIndex
                /\ Len(segmentEntry.timeline) = sentenceIndex
                /\ Len(segmentsAudio) = segmentIndex
                /\ timeOffset = segmentStartTime + SumOfDurations(sentencesAudio)
                /\ callbacks.onSentence => Cardinality(OnSentenceCalls) = sentenceIndex
           /\ (pc = "done" /\ ShouldCancelCurrentTask) => ResultIsComplete )
    /\ [][ /\ SentenceUnderWay => error' # "Canceled"
           /\ NoCheckpointAhead => error' # "Canceled"
           /\ (ShouldCancelCurrentTask /\ pc = "postprocess" /\ pc' # "failed") =>
                 /\ sentencesAudio' = Append(sentencesAudio, synthesis'.synthesizedAudio)
                 /\ timeOffset' = timeOffset + Duration(synthesis'.synthesizedAudio)
                 /\ Len(segmentEntry'.timeline) = Len(segmentEntry.timeline) + 1
                 /\ IF callbacks.onSentence
                    THEN /\ pc' = "onSentence"
                         /\ Last(events').type = "onSentence"
                         /\ Last(events').sentence = sentenceIndex
                    ELSE /\ pc' = "sentenceLoop"
                         /\ sentenceIndex' = sentenceIndex + 1
           /\ (ShouldCancelCurrentTask /\ pc = "onSentence") =>
                 (pc' = "sentenceLoop" /\ sentenceIndex' = sentenceIndex + 1)
         ]_vars

\* The first of two sentences passed its checkpoint, cancellation came
\* before the second checkpoint: the first sentence has its audio, its
\* entry and its onSentence call, and the call failed at the second
\* checkpoint.
C23_Witness ==
    /\ error = "Canceled" /\ pc = "failed"
    /\ callbacks.onSentence
    /\ segmentIndex = 0 /\ Len(sentences) = 2 /\ sentenceIndex = 1
    /\ Len(sentencesAudio) = 1 /\ timeOffset = Duration(sentencesAudio[1])
    /\ timeOffset > 0
    /\ Cardinality(OnSentenceCalls) = 1
    /\ Last(events).type = "onSentenceReturned"

(***************************************************************************)
(* C24: every segment has at least one sentence, whatever its text (empty  *)
(* and whitespace-only texts too) and with or without the split into       *)
(* sentences.  So each segment that is synthesized to its end has called   *)
(* the backend at least once, its entry of the timeline has at least one   *)
(* sentence below it, and its audio is the concatenation of the audio of   *)
(* its sentences, never the empty audio made when there is no sentence.    *)
(***************************************************************************)
SynthesizeCallsOf(s) ==
    { p \in PositionsOf("synthesize") : events[p].segment = s }

InSegment ==
    pc \in {"sentenceLoop", "backend", "align", "postprocess", "onSentence", "onSegment"}

C24_SegmentHasSentence ==
    /\ []( /\ \A i \in DOMAIN segments :
                 Len(SentencesOf(Trim(segments[i]), options)) >= 1
           /\ InSegment => Len(sentences) >= 1
           /\ \A s \in DOMAIN timeline :
                 /\ Len(timeline[s].timeline) >= 1
                 /\ \A child \in DOMAIN timeline[s].timeline :
                       timeline[s].timeline[child].type = "sentence"
                 /\ Cardinality(SynthesizeCallsOf(s - 1)) >= 1 )
    /\ [][ (pc = "sentenceLoop" /\ sentenceIndex = Len(sentences)
                /\ pc' \in {"onSegment", "segmentLoop"}) =>
               /\ Len(sentencesAudio) >= 1
               /\ Len(segmentsAudio') = Len(segmentsAudio) + 1
               /\ Last(segmentsAudio').audioChannels =
                     ConcatAudioSegments([i \in 1..Len(sentencesAudio) |->
                                             sentencesAudio[i].audioChannels])
               /\ Last(segmentsAudio').sampleRate = sentencesAudio[1].sampleRate
         ]_vars

\* Two segments, an empty text and a text of whitespace, split into
\* sentences: each had one sentence with the empty text, and one call of the
\* backend.
C24_Witness ==
    /\ pc = "done"
    /\ options.splitToSentences
    /\ segments = << <<>>, <<" ", " ">> >>
    /\ \A s \in 1..2 :
          /\ Len(result[1].timeline[s].timeline) = 1
          /\ result[1].timeline[s].timeline[1].text = <<>>
          /\ Cardinality(SynthesizeCallsOf(s - 1)) = 1

(***************************************************************************)
(* C25, as stated: the alignment collaborator is called once for a         *)
(* sentence when the backend returned no timeline and not at all when it   *)
(* returned one.  The cases of google-translate and streamlabs-polly call  *)
(* its alignSegments on the segment timeline their backend returned.       *)
(***************************************************************************)
EventsOfSentence(types) ==
    { p \in DOMAIN events :
        /\ events[p].type \in types
        /\ events[p].segment = segmentIndex
        /\ events[p].sentence = sentenceIndex }

BackendReturnedTimeline ==
    BackendSynthesize(synthesis.options.engine, synthesis.text, backendProfile).timeline
        # Undefined

C25_Original ==
    pc = "postprocess" =>
        Cardinality(EventsOfSentence({"align", "alignSegments"}))
            = IF BackendReturnedTimeline THEN 0 ELSE 1

(***************************************************************************)
(* C25: API.align is called exactly once for a sentence when the case of   *)
(* the engine left no timeline, and not at all when it left one: the       *)
(* timeline a backend returned, or, for the engines whose backend returns  *)
(* a segment timeline, the one API.alignSegments made of it within the     *)
(* case (one call, before the trim).  API.align is called after the trim   *)
(* of the leading silence, before the time and pitch shifting and before   *)
(* the word filter, on the audio as trimmed and on the text of the         *)
(* sentence, or on its conversion to plain text when the input is SSML;    *)
(* its answer becomes the timeline of the sentence.                        *)
(***************************************************************************)
C25_AlignFallback ==
    /\ []( /\ pc \in {"align", "postprocess"} =>
                /\ (synthesis.timelineAfterTrim = Undefined)
                      <=> ~(EngineReturnsTimeline(synthesis.options.engine)
                              \/ EngineAlignsSegments(synthesis.options.engine))
                /\ Cardinality(EventsOfSentence({"alignSegments"}))
                      = IF EngineAlignsSegments(synthesis.options.engine) THEN 1 ELSE 0
                /\ EventsOfSentence({"stretchTimePitch"}) = {}
           /\ pc = "align" =>
                /\ synthesis.timelineAfterTrim = Undefined
                /\ EventsOfSentence({"align"}) = {}
           /\ pc = "postprocess" =>
                Cardinality(EventsOfSentence({"align"}))
                    = IF synthesis.timelineAfterTrim = Undefined THEN 1 ELSE 0
           /\ \A p, q \in PositionsOf("align") :
                 (events[p].segment = events[q].segment
                    /\ events[p].sentence = events[q].sentence) => p = q )
    /\ [][ (pc = "align" /\ pc' # "align") =>
               /\ pc' = "postprocess"
               /\ StartingSilentSampleCount(synthesis.synthesizedAudio.audioChannels[1],
                                            SilenceThresholdDb) = 0
               /\ synthesis.timelineBeforeShifting = Undefined
               /\ synthesis'.synthesizedAudio = synthesis.synthesizedAudio
               /\ synthesis'.timeline =
                     Some(Align(synthesis.synthesizedAudio,
                                IF synthesis.options.ssml
                                THEN ConvertHtmlToText(synthesis.text)
                                ELSE synthesis.text,
                                backendProfile))
         ]_vars

\* An SSML input with markup, an engine without a timeline: the aligner was
\* called once, on the plain text, which has one word.
C25_Witness ==
    /\ pc = "postprocess"
    /\ synthesis.options.ssml
    /\ synthesis.text = <<"<", "a", ">", "a">>
    /\ synthesis.timelineAfterTrim = Undefined
    /\ Cardinality(EventsOfSentence({"align"})) = 1
    /\ Len(synthesis.timeline[1]) = 1
    /\ synthesis.timeline[1][1].text = <<"a">>

(***************************************************************************)
(* C26.  The factors of a sentence whose postprocessing is done are the    *)
(* explicit postProcessing.speed and postProcessing.pitch when set, else   *)
(* the clipped speed and pitch of the request when the case of the engine  *)
(* left them to the postprocessing, else none.                             *)
(***************************************************************************)
EffectiveSpeedOf(synthesisOptions) ==
    IF synthesisOptions.postProcessing.speed # Undefined
    THEN synthesisOptions.postProcessing.speed
    ELSE IF EngineDefersSpeed(synthesisOptions.engine)
    THEN Clip(synthesisOptions.speed, MinScale, MaxScale)
    ELSE Undefined

EffectivePitchOf(synthesisOptions) ==
    IF synthesisOptions.postProcessing.pitch # Undefined
    THEN synthesisOptions.postProcessing.pitch
    ELSE IF EngineDefersPitch(synthesisOptions.engine)
    THEN Clip(synthesisOptions.pitch, MinScale, MaxScale)
    ELSE Undefined

IsFactorToApply(factor) == factor # Undefined /\ factor # One

Postprocessed == synthesis.timelineAfterShifting # Undefined

\* how many times the speed of the request was applied to the audio of the
\* sentence: by the engine, and by the DSP when its factor is that speed
RequestedSpeedApplications ==
    (IF EngineAppliesSpeed(synthesis.options.engine) THEN 1 ELSE 0)
      + (IF synthesis.shifted
            /\ synthesis.options.postProcessing.speed = Undefined
            /\ synthesis.timeStretchFactor
                  = Clip(synthesis.options.speed, MinScale, MaxScale)
         THEN 1 ELSE 0)

SpeedIsRequested == Clip(synthesis.options.speed, MinScale, MaxScale) # One

\* the DSP is called if and only if one of the factors is to apply, with the
\* factors, and a sentence of an engine that applies the speed itself, with
\* no explicit postProcessing.speed, is not stretched in time
FactorsDecideTheShifting ==
    /\ [](Postprocessed =>
            /\ synthesis.shifted
                  <=> \/ IsFactorToApply(EffectiveSpeedOf(synthesis.options))
                      \/ IsFactorToApply(EffectivePitchOf(synthesis.options))
            /\ synthesis.shifted =>
                  /\ synthesis.timeStretchFactor = OrOne(EffectiveSpeedOf(synthesis.options))
                  /\ synthesis.pitchShiftFactor = OrOne(EffectivePitchOf(synthesis.options))
            /\ (EngineAppliesSpeed(synthesis.options.engine)
                    /\ synthesis.options.postProcessing.speed = Undefined) =>
                  /\ synthesis.shifted => synthesis.timeStretchFactor = One
                  /\ synthesis.timelineAfterShifting = synthesis.timelineBeforeShifting)
    /\ [][ (pc = "postprocess" /\ pc' \in {"onSentence", "sentenceLoop"}) =>
               /\ Postprocessed'
               /\ Cardinality({ p \in (Len(events) + 1)..Len(events') :
                                  events'[p].type = "stretchTimePitch" })
                     = IF synthesis'.shifted THEN 1 ELSE 0
         ]_vars

IsNumberString(string) ==
    /\ Len(string) >= 1
    /\ \A i \in DOMAIN string : \E d \in DOMAIN Digits : Digits[d] = string[i]
    /\ Len(string) > 1 => string[1] # "0"

DigitValue(c) == (CHOOSE d \in DOMAIN Digits : Digits[d] = c) - 1

RECURSIVE ParseNumber(_)
ParseNumber(string) ==
    IF string = <<>> THEN 0
    ELSE 10 * ParseNumber(SubSeq(string, 1, Len(string) - 1)) + DigitValue(Last(string))

\* the string is the sign, the number and the unit, one after the other
IsSignedValue(string, sign, unit) ==
    /\ Len(string) >= 1 + 1 + Len(unit)
    /\ string[1] = sign
    /\ SubSeq(string, Len(string) - Len(unit) + 1, Len(string)) = unit
    /\ IsNumberString(SubSeq(string, 2, Len(string) - Len(unit)))

ValueOf(string, unit) == ParseNumber(SubSeq(string, 2, Len(string) - Len(unit)))

ScalesAreClipped ==
    /\ ~FactorLess(prosody.speed, MinScale) /\ ~FactorLess(MaxScale, prosody.speed)
    /\ ~FactorLess(prosody.pitch, MinScale) /\ ~FactorLess(MaxScale, prosody.pitch)

\* the rate string is +P% with P = floor((speed - 1) * 100) for a speed of 1
\* or more, and -P% with P = floor((1 / speed - 1) * 100) for a speed below 1
RateStringIsRight ==
    LET num == prosody.speed[1]
        den == prosody.speed[2]
        P == ValueOf(prosody.ssmlRate, <<"%">>)
    IN  IF num >= den
        THEN /\ IsSignedValue(prosody.ssmlRate, "+", <<"%">>)
             /\ P >= 0
             /\ P * den <= (num - den) * 100 /\ (num - den) * 100 < (P + 1) * den
        ELSE /\ IsSignedValue(prosody.ssmlRate, "-", <<"%">>)
             /\ P >= 0
             /\ P * num <= (den - num) * 100 /\ (den - num) * 100 < (P + 1) * num

\* the pitch string is the sign, D and the unit, with D = floor(pitch * f0) - f0
\* for a pitch of 1 or more and D = f0 - floor(pitch * f0) for a pitch below 1
PitchStringIsRight(unit) ==
    LET num == prosody.pitch[1]
        den == prosody.pitch[2]
        f0 == IF prosody.voiceGender = "male" THEN 120
              ELSE IF prosody.voiceGender = "female" THEN 210 ELSE 165
        D == ValueOf(prosody.ssmlPitch, unit)
    IN  IF num >= den
        THEN /\ IsSignedValue(prosody.ssmlPitch, "+", unit)
             /\ D >= 0
             /\ (f0 + D) * den <= num * f0 /\ num * f0 < (f0 + D + 1) * den
        ELSE /\ IsSignedValue(prosody.ssmlPitch, "-", unit)
             /\ D >= 0
             /\ (f0 - D) * den <= num * f0 /\ num * f0 < (f0 - D + 1) * den

\* C27, as stated: the pitch string is the sign, D and " Hz", whatever the
\* options of the engine.
C27_Original ==
    prosody.pc = "synthesize" =>
        /\ ScalesAreClipped
        /\ RateStringIsRight
        /\ PitchStringIsRight(<<" ", "H", "z">>)

\* C27: for microsoft-azure and microsoft-edge, with the speed and the pitch
\* clipped to [0.1, 10]: the rate string is '+P%' with
\* P = floor((speed - 1) * 100) when speed >= 1 and '-P%' with
\* P = floor((1 / speed - 1) * 100) when speed < 1; when the pitchDeltaHz of
\* the engine's options is not set, the pitch string, for f0 = 120 (male),
\* 210 (female) or 165 (otherwise), is '+DHz' with D = floor(pitch * f0) - f0
\* when pitch >= 1 and '-DHz' with D = f0 - floor(pitch * f0) when pitch < 1,
\* the unit right after the number; when pitchDeltaHz is set the pitch
\* string is its sign, its absolute value and 'Hz', whatever the pitch; P
\* and D are never negative.
C27_SsmlValueStrings ==
    prosody.pc = "synthesize" =>
        /\ ScalesAreClipped
        /\ RateStringIsRight
        /\ IF prosody.pitchDeltaHz = Undefined
           THEN PitchStringIsRight(<<"H", "z">>)
           ELSE /\ IsSignedValue(prosody.ssmlPitch,
                                 IF prosody.pitchDeltaHz[1] >= 0 THEN "+" ELSE "-",
                                 <<"H", "z">>)
                /\ ValueOf(prosody.ssmlPitch, <<"H", "z">>) = Abs(prosody.pitchDeltaHz[1])

\* A speed at the lower end of the range and a pitch of 3/4 for a female
\* voice: -900% and -53Hz.
C27_Witness ==
    /\ prosody.pc = "synthesize"
    /\ prosody.pitchDeltaHz = Undefined
    /\ prosody.speed = <<1, 10>> /\ prosody.ssmlRate = <<"-", "9", "0", "0", "%">>
    /\ prosody.pitch = <<3, 4>> /\ prosody.voiceGender = "female"
    /\ prosody.ssmlPitch = <<"-", "5", "3", "H", "z">>

(***************************************************************************)
(* C28.  The pause of a sentence is the silence at the end of its audio,   *)
(* in samples.                                                             *)
(***************************************************************************)
PauseOf(sentenceAudio) ==
    EndingSilentSampleCount(sentenceAudio.audioChannels[1], SilenceThresholdDb)

\* the samples of a pause given in time units
PauseSamples(endPause, sampleRate) == (endPause * sampleRate) \div TimeDen

\* the step that ends a sentence leaves segmentEndPause at the end of the
\* audio of the last sentence of the segment and sentenceEndPause at the end
\* of any other, and advances the cursor by the duration of that audio
PauseIsLeftAndCursorAdvances ==
    [][ (pc = "postprocess" /\ pc' \in {"onSentence", "sentenceLoop"}) =>
           LET sentenceAudio == Last(sentencesAudio')
               endPause == IF sentenceIndex = Len(sentences) - 1
                           THEN options.segmentEndPause
                           ELSE options.sentenceEndPause
           IN  /\ Len(sentencesAudio') = Len(sentencesAudio) + 1
               /\ PauseOf(sentenceAudio) = PauseSamples(endPause, sentenceAudio.sampleRate)
               /\ timeOffset' = timeOffset + Duration(sentenceAudio)
      ]_vars

\* in a segment whose sentences are all done, the pause of the last sentence
\* is longer than the pause of every other
LastPauseIsLonger ==
    (pc = "sentenceLoop" /\ sentenceIndex = Len(sentences)) =>
        \A i \in 1..(Len(sentencesAudio) - 1) :
            PauseOf(Last(sentencesAudio)) > PauseOf(sentencesAudio[i])

\* C28, as stated: the pause after the last sentence of a segment is longer
\* than the pause after any other, whatever the options.
C28_Original ==
    /\ PauseIsLeftAndCursorAdvances
    /\ []LastPauseIsLonger

\* C28: the pause left at the end of the audio of each sentence is
\* segmentEndPause for the last sentence of a segment and sentenceEndPause for
\* every other sentence; the cursor advances by the duration of the audio
\* after this trim; with the default pauses (1.0 and 0.75 seconds) the pause
\* after the last sentence of a segment is longer than the pause after the
\* others, and with pauses the caller sets it is whatever they make it.
C28_EndPauses ==
    /\ PauseIsLeftAndCursorAdvances
    /\ []( (/\ options.segmentEndPause = DefaultSegmentEndPause
             /\ options.sentenceEndPause = DefaultSentenceEndPause) => LastPauseIsLonger )
    /\ []( (pc = "sentenceLoop" /\ sentenceIndex = Len(sentences)) =>
             \A i \in 1..Len(sentencesAudio) :
                 PauseOf(sentencesAudio[i]) =
                     PauseSamples(IF i = Len(sentencesAudio) THEN options.segmentEndPause
                                  ELSE options.sentenceEndPause,
                                  sentencesAudio[i].sampleRate) )

\* A segment of two sentences with the default pauses, a backend that leaves
\* no silence of its own: the second sentence ends in a longer silence than
\* the first, and the cursor is at the end of both.
C28_Witness ==
    /\ pc = "sentenceLoop" /\ sentenceIndex = 2 /\ Len(sentencesAudio) = 2
    /\ backendProfile.trailingSilence = 0
    /\ options.segmentEndPause = DefaultSegmentEndPause
    /\ options.sentenceEndPause = DefaultSentenceEndPause
    /\ PauseOf(sentencesAudio[1]) >= 1
    /\ PauseOf(sentencesAudio[2]) > PauseOf(sentencesAudio[1])
    /\ timeOffset = segmentStartTime + Duration(sentencesAudio[1]) + Duration(sentencesAudio[2])

(***************************************************************************)
(* C29: for every segment, the timeline passed to onSegment and stored in  *)
(* segmentsTimelines is the sentences of the segment's entry of the        *)
(* top-level timeline with the start time of the segment subtracted from   *)
(* every time at every nesting level, so that its first sentence starts at *)
(* 0; the top-level timeline keeps the times of the whole audio: each      *)
(* segment starts where the one before ended and its first sentence starts *)
(* with it.  The two differ by the start time of the segment and by        *)
(* nothing else.                                                           *)
(***************************************************************************)
C29_SegmentTimelines ==
    /\ Len(segmentsTimelines) = Len(timeline)
    /\ \A s \in DOMAIN segmentsTimelines :
          /\ ShiftedBy(segmentsTimelines[s], timeline[s].timeline, -timeline[s].startTime)
          /\ segmentsTimelines[s] # <<>>
          /\ segmentsTimelines[s][1].startTime = 0
          /\ timeline[s].timeline[1].startTime = timeline[s].startTime
          /\ timeline[s].startTime = IF s = 1 THEN 0 ELSE timeline[s - 1].endTime
    /\ \A p \in PositionsOf("onSegment") :
          /\ events[p].segment + 1 \in DOMAIN segmentsTimelines
          /\ events[p].timeline = segmentsTimelines[events[p].segment + 1]
    /\ (callbacks.onSegment /\ pc \notin {"start", "failed"}) =>
          Cardinality(PositionsOf("onSegment")) = Len(segmentsTimelines)
    /\ pc = "done" =>
          /\ result[1].timeline = timeline
          /\ result[1].segmentsTimelines = segmentsTimelines

\* Two segments with words: the second starts after 0 in the top-level
\* timeline, and at 0, words shifted with it, in the timeline onSegment got.
C29_Witness ==
    /\ pc = "done" /\ callbacks.onSegment
    /\ Len(timeline) = 2 /\ timeline[2].startTime > 0
    /\ Len(timeline[2].timeline[1].timeline) >= 1
    /\ timeline[2].timeline[1].timeline[1].startTime >= timeline[2].startTime
    /\ segmentsTimelines[2][1].startTime = 0
    /\ segmentsTimelines[2][1].timeline[1].startTime
          = timeline[2].timeline[1].timeline[1].startTime - timeline[2].startTime
    /\ \E p \in PositionsOf("onSegment") :
          events[p].segment = 1 /\ events[p].timeline = segmentsTimelines[2]

(***************************************************************************)
(* C30: the loudness is never normalized at the level of a sentence,       *)
(* whatever postProcessing.normalizeAudio the caller set: synthesizeSegment *)
(* is called with normalizeAudio false.  When normalizeAudio is set, the   *)
(* audio of each segment is the normalized concatenation of the audio of   *)
(* its sentences, and the audio of the result is the normalized            *)
(* concatenation of the audio of the segments.                             *)
(***************************************************************************)
Normalized(audio) ==
    IF options.postProcessing.normalizeAudio
    THEN NormalizeAudioLevel(audio, options.postProcessing.targetPeakDb,
                             options.postProcessing.maxIncreaseDb)
    ELSE audio

SentencesAreNotNormalized ==
    pc \in {"backend", "align", "postprocess"} =>
        ~synthesis.options.postProcessing.normalizeAudio

ResultIsNormalized ==
    (pc = "done" /\ segmentsAudio # <<>>) =>
        result[1].synthesizedAudio = Normalized(SegmentAudioOf(segmentsAudio))

C30_NormalizationLevels ==
    /\ []SentencesAreNotNormalized
    /\ []ResultIsNormalized
    /\ [][ (pc = "sentenceLoop" /\ sentenceIndex = Len(sentences)
                /\ pc' \in {"onSegment", "segmentLoop"}) =>
               Last(segmentsAudio') = Normalized(SegmentAudioOf(sentencesAudio))
         ]_vars

(***************************************************************************)
(* C31: the voice synthesizeSegments selects and announces is the voice    *)
(* each synthesizeSegment call selects again, through requestVoiceList     *)
(* with the resolved options, for every voice list and every combination   *)
(* of requested language, gender and name pattern.                         *)
(***************************************************************************)
C31_VoiceResolutionIsIdempotent ==
    pc = "reselected" => synthesis.selectedVoice = voiceAnswer[1].bestMatchingVoice

(***************************************************************************)
(* C32: peakDecibelsSoFar in the callback events starts from -100 and is   *)
(* the running maximum over the sentences synthesized so far: over the     *)
(* successive onSentence and onSegment events of a call it never           *)
(* decreases, it is never below -100, and the value of an onSegment event  *)
(* is the value of the onSentence event of the segment's last sentence.    *)
(***************************************************************************)
CallbackEvents == SelectSeq(events, LAMBDA e : e.type \in {"onSentence", "onSegment"})

RECURSIVE PeakOfAudios(_)
PeakOfAudios(audios) ==
    IF audios = <<>> THEN -100
    ELSE Max(GetAudioPeakDecibels(Head(audios).audioChannels), PeakOfAudios(Tail(audios)))

\* the highest level among the sentences of the segments already ended and
\* of the segment under way; it is -100 when there is none
PeakOfSentencesSoFar == PeakOfAudios(segmentsAudio \o sentencesAudio)

C32_PeakDecibelsSoFar ==
    /\ pc \in {"onSentence", "onSegment"} =>
           Last(events).peakDecibelsSoFar = PeakOfSentencesSoFar
    /\ \A j \in DOMAIN CallbackEvents :
           /\ CallbackEvents[j].peakDecibelsSoFar >= -100
           /\ \A i \in 1..(j - 1) :
                  /\ CallbackEvents[i].peakDecibelsSoFar <= CallbackEvents[j].peakDecibelsSoFar
                  /\ ( /\ CallbackEvents[j].type = "onSegment"
                       /\ CallbackEvents[i].type = "onSentence"
                       /\ CallbackEvents[i].segment = CallbackEvents[j].segment
                       /\ CallbackEvents[i].sentence = CallbackEvents[i].total - 1 ) =>
                         CallbackEvents[i].peakDecibelsSoFar =
                             CallbackEvents[j].peakDecibelsSoFar

\* a silent segment, then a voiced one: the events of the first carry -100,
\* the onSentence event of the last sentence of the second a higher level,
\* and the onSegment event of the second that level again
C32_Witness ==
    /\ pc = "onSegment"
    /\ Len(CallbackEvents) >= 3
    /\ LET n == Len(CallbackEvents)
       IN  /\ CallbackEvents[1].type = "onSentence"
           /\ CallbackEvents[1].peakDecibelsSoFar = -100
           /\ CallbackEvents[n].type = "onSegment"
           /\ CallbackEvents[n - 1].type = "onSentence"
           /\ CallbackEvents[n - 1].segment = CallbackEvents[n].segment
           /\ CallbackEvents[n - 1].sentence = CallbackEvents[n - 1].total - 1
           /\ CallbackEvents[n - 1].peakDecibelsSoFar > -100
           /\ CallbackEvents[n].peakDecibelsSoFar = CallbackEvents[n - 1].peakDecibelsSoFar

(***************************************************************************)
(* C33: when sending a request fails (encodeMsgPack or ws.send throws in   *)
(* sendRequest), the promise that synthesizeSegments or requestVoiceList   *)
(* returns is rejected with that error and no listener is registered for   *)
(* the request: responseListeners is left as it was.  A listener is        *)
(* registered only after the request was handed to the socket.             *)
(***************************************************************************)
\* the step is a call of a method of the Client
CallIsMade == Len(clientCalls') = Len(clientCalls) + 1

C33_FailedSendRegistersNothing ==
    /\ [](\A k \in DOMAIN clientCalls :
             /\ clientCalls[k].threw # None =>
                    /\ clientCalls[k].requestOpenPromise.state = "rejected"
                    /\ clientCalls[k].requestOpenPromise.reason = clientCalls[k].threw
                    /\ ListenerOf(responseListeners, clientCalls[k].requestId) = 0
                    /\ clientCalls[k].invoked = <<>>
             /\ IsRegistered(k) => clientCalls[k].sent
             /\ clientCalls[k].sent => clientCalls[k].requestOpenPromise.state # "rejected")
    /\ [][ (CallIsMade /\ Last(clientCalls').threw # None) =>
                responseListeners' = responseListeners
         ]_vars

\* C33 happens: the first call failed in ws.send, the second one was sent,
\* and a response with the request id of the first call has arrived since
C33_Witness ==
    /\ Len(clientCalls) = 2
    /\ clientCalls[1].threw = "ws.send failed"
    /\ clientCalls[1].requestOpenPromise.state = "rejected"
    /\ clientCalls[2].sent
    /\ RegisteredIds = {clientCalls[2].requestId}
    /\ received.count > 0
    /\ received.frame.isBinary
    /\ received.frame.data.format = "map"
    /\ received.frame.data.body.requestId = clientCalls[1].requestId

(***************************************************************************)
(* C34: encodeAscii and decodeAscii round-trip: for a string whose         *)
(* characters all have a code below 128, encodeAscii yields one byte per   *)
(* character, equal to its code, and decodeAscii of these bytes is the     *)
(* string; encodeAscii throws, returning no buffer, at the first character *)
(* with a code of 128 or more; what decodeAscii returns is its decoded     *)
(* chunks one after the other, in order, whatever the chunk size.          *)
(***************************************************************************)
IsAsciiString(string) == \A i \in DOMAIN string : string[i] < 128

\* the place of the first character that is not ASCII
FirstNonAscii(string) ==
    CHOOSE i \in DOMAIN string :
        string[i] >= 128 /\ \A j \in 1 .. (i - 1) : string[j] < 128

\* the chunks of a buffer cut every chunkSize bytes, in order
ChunksOf(buffer, chunkSize) ==
    [k \in 1 .. ((Len(buffer) + chunkSize - 1) \div chunkSize) |->
        [i \in 1 .. Min(chunkSize, Len(buffer) - (k - 1) * chunkSize) |->
            buffer[(k - 1) * chunkSize + i]]]

RECURSIVE DecodedChunksOf(_)
DecodedChunksOf(chunks) ==
    IF chunks = <<>> THEN <<>> ELSE TextDecode(Head(chunks)) \o DecodedChunksOf(Tail(chunks))

C34_AsciiRoundTrip ==
    /\ ascii.source = "encodeAscii" =>
           IF IsAsciiString(ascii.input)
           THEN /\ ascii.threw = None
                /\ ascii.buffer # Undefined
                /\ Len(ascii.buffer[1]) = Len(ascii.input)
                /\ \A i \in DOMAIN ascii.input : ascii.buffer[1][i] = ascii.input[i]
                /\ ascii.pc = "decoded" => ascii.decoded = Some(ascii.input)
           ELSE /\ ascii.pc = "threw"
                /\ ascii.threw # None
                /\ ascii.at = FirstNonAscii(ascii.input)
                /\ ascii.buffer = Undefined
    /\ ascii.pc = "decoded" =>
           /\ ascii.decoded = Some(DecodedChunksOf(ChunksOf(ascii.buffer[1], ascii.chunkSize)))
           /\ \A chunkSize \in ChunkSizes :
                  ascii.decoded = Some(DecodeAsciiInChunksOf(ascii.buffer[1], chunkSize))
           /\ Len(ascii.decoded[1]) = Len(ascii.buffer[1])
           /\ \A i \in DOMAIN ascii.buffer[1] :
                  ascii.decoded[1][i] = Windows1252(ascii.buffer[1][i])

\* C34 happens: a string of NUL, a letter and DEL was encoded and its bytes
\* were decoded in two chunks, of two bytes and of one
C34_Witness ==
    /\ ascii.pc = "decoded"
    /\ ascii.source = "encodeAscii"
    /\ ascii.input = <<0, 97, 127>>
    /\ ascii.chunkSize = 2
    /\ ascii.decoded = Some(<<0, 97, 127>>)

====
